---- MODULE Spec2Model ----
(***************************************************************************)
(* Dependency-vulnerability scan of bolt.diy: manifest detection and       *)
(* parsing (app/types/osv.ts), the OSV.dev client                          *)
(* (app/lib/security/osv-client.ts) and the scan endpoint (api.osv-scan).  *)
(*                                                                         *)
(* Text is modelled as a sequence of one-character strings, so that the    *)
(* regular expressions and the string concatenations of the source are     *)
(* computed character by character.  An absent (undefined or null) text is *)
(* Undefined, a sequence that is no text; any other optional value is      *)
(* None or Some(v).                                                        *)
(***************************************************************************)
EXTENDS Integers, Sequences, FiniteSets, TLC

Undefined == <<"undefined">>
None      == [some |-> FALSE]
Some(v)   == [some |-> TRUE, value |-> v]

(***************************************************************************)
(* Bounds of the model.                                                    *)
(***************************************************************************)
\* Longest list of files a scan request carries.
MaxFiles == 2

\* Batch size of queryOsvBatch.  The source sets MAX_BATCH_SIZE = 1000
\* (osv-client.ts:16); the model runs the same slicing loop with a small
\* batch size so that several batches occur with a handful of packages.
MAX_BATCH_SIZE == 2

(***************************************************************************)
(* Character-level helpers for the string operations the source uses.      *)
(***************************************************************************)
UpperChars == <<"A", "B", "C", "D", "E", "F", "G", "H", "I", "J", "K", "L", "M",
                "N", "O", "P", "Q", "R", "S", "T", "U", "V", "W", "X", "Y", "Z">>
LowerChars == <<"a", "b", "c", "d", "e", "f", "g", "h", "i", "j", "k", "l", "m",
                "n", "o", "p", "q", "r", "s", "t", "u", "v", "w", "x", "y", "z">>

\* The lower-case letter of each upper-case letter.
LowerOf ==
  [c \in {UpperChars[i] : i \in 1..26} |->
     LowerChars[CHOOSE i \in 1..26 : UpperChars[i] = c]]

\* String.prototype.toLowerCase, one character.
ToLowerChar(c) == IF c \in DOMAIN LowerOf THEN LowerOf[c] ELSE c

\* String.prototype.toLowerCase.
ToLowerCase(s) == [i \in 1..Len(s) |-> ToLowerChar(s[i])]

\* A regular expression /suffix$/i tested on s.
EndsWithI(s, suffix) ==
  /\ Len(s) >= Len(suffix)
  /\ \A i \in 1..Len(suffix) :
       ToLowerChar(s[Len(s) - Len(suffix) + i]) = ToLowerChar(suffix[i])

\* \s of a regular expression, and the characters trim() strips.
IsSpace(c) == c \in {" ", "\n", "\t", "\r"}

\* The characters '.' of a regular expression does not match.
IsLineTerminator(c) == c \in {"\n", "\r"}

\* s.includes(c) for a single character c.
Includes(s, c) == \E i \in 1..Len(s) : s[i] = c

\* String.prototype.trim.
Trim(s) ==
  IF \A i \in 1..Len(s) : IsSpace(s[i])
  THEN <<>>
  ELSE LET first == CHOOSE i \in 1..Len(s) :
                      ~IsSpace(s[i]) /\ \A j \in 1..(i - 1) : IsSpace(s[j])
           last  == CHOOSE i \in 1..Len(s) :
                      ~IsSpace(s[i]) /\ \A j \in (i + 1)..Len(s) : IsSpace(s[j])
       IN  SubSeq(s, first, last)

(***************************************************************************)
(* Manifest detection (osv.ts:125-184).                                    *)
(***************************************************************************)
PACKAGE_JSON     == <<"p", "a", "c", "k", "a", "g", "e", ".", "j", "s", "o", "n">>
REQUIREMENTS_TXT == <<"r", "e", "q", "u", "i", "r", "e", "m", "e", "n", "t", "s", ".", "t", "x", "t">>
PIPFILE          == <<"P", "i", "p", "f", "i", "l", "e">>
PYPROJECT_TOML   == <<"p", "y", "p", "r", "o", "j", "e", "c", "t", ".", "t", "o", "m", "l">>
GO_MOD           == <<"g", "o", ".", "m", "o", "d">>
CARGO_TOML       == <<"C", "a", "r", "g", "o", ".", "t", "o", "m", "l">>
POM_XML          == <<"p", "o", "m", ".", "x", "m", "l">>
BUILD_GRADLE     == <<"b", "u", "i", "l", "d", ".", "g", "r", "a", "d", "l", "e">>
BUILD_GRADLE_KTS == <<"b", "u", "i", "l", "d", ".", "g", "r", "a", "d", "l", "e", ".", "k", "t", "s">>
PACKAGES_CONFIG  == <<"p", "a", "c", "k", "a", "g", "e", "s", ".", "c", "o", "n", "f", "i", "g">>
DOT_CSPROJ       == <<".", "c", "s", "p", "r", "o", "j">>
COMPOSER_JSON    == <<"c", "o", "m", "p", "o", "s", "e", "r", ".", "j", "s", "o", "n">>
GEMFILE          == <<"G", "e", "m", "f", "i", "l", "e">>

\* MANIFEST_PATTERNS: each entry is the set of alternatives of its
\* /...$/i regular expression.
MANIFEST_PATTERNS ==
  [npm      |-> {PACKAGE_JSON},
   python   |-> {REQUIREMENTS_TXT, PIPFILE, PYPROJECT_TOML},
   go       |-> {GO_MOD},
   rust     |-> {CARGO_TOML},
   maven    |-> {POM_XML},
   gradle   |-> {BUILD_GRADLE, BUILD_GRADLE_KTS},
   nuget    |-> {PACKAGES_CONFIG, DOT_CSPROJ},
   composer |-> {COMPOSER_JSON},
   ruby     |-> {GEMFILE}]

\* RegExp.prototype.test for one MANIFEST_PATTERNS entry.
PatternTest(alternatives, s) == \E suffix \in alternatives : EndsWithI(s, suffix)

\* Ecosystem identifiers (OsvEcosystem).
NPM       == <<"n", "p", "m">>
PYPI      == <<"P", "y", "P", "I">>
GO        == <<"G", "o">>
CRATES_IO == <<"c", "r", "a", "t", "e", "s", ".", "i", "o">>
MAVEN     == <<"M", "a", "v", "e", "n">>
NUGET     == <<"N", "u", "G", "e", "t">>
PACKAGIST == <<"P", "a", "c", "k", "a", "g", "i", "s", "t">>
RUBYGEMS  == <<"R", "u", "b", "y", "G", "e", "m", "s">>

\* detectManifestType, if the ecosystems without a parser were not
\* recognized at all.
detectManifestType_ParsedOnly(filePath) ==
  LET fileName == ToLowerCase(filePath)
  IN  IF PatternTest(MANIFEST_PATTERNS.npm, fileName) THEN NPM
      ELSE IF PatternTest(MANIFEST_PATTERNS.python, fileName) THEN PYPI
      ELSE IF PatternTest(MANIFEST_PATTERNS.go, fileName) THEN GO
      ELSE IF PatternTest(MANIFEST_PATTERNS.rust, fileName) THEN CRATES_IO
      ELSE IF PatternTest(MANIFEST_PATTERNS.maven, fileName) THEN MAVEN
      ELSE Undefined

\* detectManifestType: null is the token Undefined.
detectManifestType(filePath) ==
  LET fileName == ToLowerCase(filePath)
  IN  IF PatternTest(MANIFEST_PATTERNS.npm, fileName) THEN NPM
      ELSE IF PatternTest(MANIFEST_PATTERNS.python, fileName) THEN PYPI
      ELSE IF PatternTest(MANIFEST_PATTERNS.go, fileName) THEN GO
      ELSE IF PatternTest(MANIFEST_PATTERNS.rust, fileName) THEN CRATES_IO
      ELSE IF PatternTest(MANIFEST_PATTERNS.maven, fileName) THEN MAVEN
      ELSE IF PatternTest(MANIFEST_PATTERNS.nuget, fileName) THEN NUGET
      ELSE IF PatternTest(MANIFEST_PATTERNS.composer, fileName) THEN PACKAGIST
      ELSE IF PatternTest(MANIFEST_PATTERNS.ruby, fileName) THEN RUBYGEMS
      ELSE Undefined

(***************************************************************************)
(* Version cleaning (osv.ts:189-208).                                      *)
(***************************************************************************)
\* .replace(/^[\^~>=<]+/, ''): drop the leading run of constraint characters.
StripConstraintPrefix(s) ==
  LET isC(c) == c \in {"^", "~", ">", "=", "<"}
      n == IF \A i \in 1..Len(s) : isC(s[i])
           THEN Len(s)
           ELSE (CHOOSE i \in 1..Len(s) :
                   ~isC(s[i]) /\ \A j \in 1..(i - 1) : isC(s[j])) - 1
  IN  SubSeq(s, n + 1, Len(s))

\* The regular expression /\s*<mark>.*$/ matches at position p of s: white
\* space from p up to an occurrence of mark, and no line terminator after it.
TailMatchAt(s, mark, p) ==
  \E k \in p..Len(s) :
    /\ \A j \in p..(k - 1) : IsSpace(s[j])
    /\ k + Len(mark) - 1 <= Len(s)
    /\ SubSeq(s, k, k + Len(mark) - 1) = mark
    /\ \A j \in (k + Len(mark))..Len(s) : ~IsLineTerminator(s[j])

\* .replace(/\s*<mark>.*$/, ''): cut s at the leftmost match, if any.
CutTail(s, mark) ==
  IF \E p \in 1..Len(s) : TailMatchAt(s, mark, p)
  THEN LET p == CHOOSE q \in 1..Len(s) :
                  /\ TailMatchAt(s, mark, q)
                  /\ \A r \in 1..(q - 1) : ~TailMatchAt(s, mark, r)
       IN  SubSeq(s, 1, p - 1)
  ELSE s

\* .split(/\s+/)[0]: the text before the first white-space character.
FirstToken(s) ==
  IF \E i \in 1..Len(s) : IsSpace(s[i])
  THEN LET i == CHOOSE k \in 1..Len(s) :
                  IsSpace(s[k]) /\ \A j \in 1..(k - 1) : ~IsSpace(s[j])
       IN  SubSeq(s, 1, i - 1)
  ELSE s

\* .replace(/[.*x].*$/, '0'): the leftmost '.', '*' or 'x' that no line
\* terminator follows, and everything after it, become '0'.
ReplaceWildcardTail(s) ==
  LET hit(p) == /\ s[p] \in {".", "*", "x"}
                /\ \A j \in (p + 1)..Len(s) : ~IsLineTerminator(s[j])
  IN  IF \E p \in 1..Len(s) : hit(p)
      THEN LET p == CHOOSE q \in 1..Len(s) : hit(q) /\ \A r \in 1..(q - 1) : ~hit(r)
           IN  Append(SubSeq(s, 1, p - 1), "0")
      ELSE s

\* .replace(/\.$/, '.0'): a final '.' becomes '.0'.
ReplaceFinalDot(s) ==
  IF Len(s) > 0 /\ s[Len(s)] = "." THEN Append(s, "0") ELSE s

\* cleanVersion.
cleanVersion(version) ==
  IF version = Undefined \/ version = <<>>
  THEN <<>>
  ELSE LET cleaned == FirstToken(CutTail(CutTail(StripConstraintPrefix(Trim(version)),
                                                 <<"|", "|">>),
                                         <<"-">>))
       IN  IF Includes(cleaned, "*") \/ Includes(cleaned, "x")
           THEN ReplaceFinalDot(ReplaceWildcardTail(cleaned))
           ELSE cleaned

(***************************************************************************)
(* Manifest parsing (osv.ts:213-259, 449-496).                             *)
(*                                                                         *)
(* The content of a package.json is modelled by what JSON.parse makes of   *)
(* it: MalformedJson when JSON.parse throws, else the object's             *)
(* dependencies and devDependencies members.  A JSON value is a record     *)
(* with its typeof in field type; an object lists its own enumerable       *)
(* entries in Object.entries order.                                        *)
(***************************************************************************)
MalformedJson == [type |-> "malformed"]
JsonUndefined == [type |-> "undefined"]
JsonNumber    == [type |-> "number"]
JsonString(chars)   == [type |-> "string", value |-> chars]
JsonObject(entries) == [type |-> "object", entries |-> entries]

\* One PackageInfo.
PackageInfo(name, version, ecosystem, manifestFile) ==
  [name |-> name, version |-> version, ecosystem |-> ecosystem,
   manifestFile |-> manifestFile]

\* NpmEntries, pushing a package whatever its cleaned version is.
RECURSIVE NpmEntries_KeepEmpty(_, _)
NpmEntries_KeepEmpty(entries, manifestFile) ==
  IF entries = <<>>
  THEN <<>>
  ELSE LET e    == Head(entries)
           rest == NpmEntries_KeepEmpty(Tail(entries), manifestFile)
       IN  IF e.value.type = "string"
           THEN <<PackageInfo(e.name, cleanVersion(e.value.value), NPM, manifestFile)>>
                  \o rest
           ELSE rest

\* The body of the two for-loops of extractNpmPackages: the packages pushed
\* for the entries of one dependency map, in Object.entries order.
RECURSIVE NpmEntries(_, _)
NpmEntries(entries, manifestFile) ==
  IF entries = <<>>
  THEN <<>>
  ELSE LET e    == Head(entries)
           rest == NpmEntries(Tail(entries), manifestFile)
       IN  IF e.value.type = "string"
           THEN LET cleanedVersion == cleanVersion(e.value.value)
                IN  IF cleanedVersion # <<>>
                    THEN <<PackageInfo(e.name, cleanedVersion, NPM, manifestFile)>>
                           \o rest
                    ELSE rest
           ELSE rest

\* extractNpmPackages, reading the dependencies map alone.
extractNpmPackages_DependenciesOnly(content, manifestFile) ==
  IF content.type = "malformed"
  THEN <<>>
  ELSE IF content.dependencies.type = "object"
       THEN NpmEntries(content.dependencies.entries, manifestFile)
       ELSE <<>>

\* extractNpmPackages: a JSON.parse failure is caught and leaves the list empty.
extractNpmPackages(content, manifestFile) ==
  IF content.type = "malformed"
  THEN <<>>
  ELSE (IF content.dependencies.type = "object"
        THEN NpmEntries(content.dependencies.entries, manifestFile)
        ELSE <<>>)
       \o
       (IF content.devDependencies.type = "object"
        THEN NpmEntries(content.devDependencies.entries, manifestFile)
        ELSE <<>>)

(***************************************************************************)
(* Text manifest parsers (osv.ts:264-444).  The content of a manifest      *)
(* other than package.json is a text.                                      *)
(***************************************************************************)
\* The character classes of the parsers' regular expressions: \s, [0-9.],
\* [a-zA-Z0-9_-] and [a-zA-Z0-9._/-].
CharClasses ==
  LET letters == {UpperChars[i] : i \in 1..26} \cup {LowerChars[i] : i \in 1..26}
      digits  == {"0", "1", "2", "3", "4", "5", "6", "7", "8", "9"}
  IN  [space   |-> {" ", "\n", "\t", "\r"},
       version |-> digits \cup {"."},
       name    |-> letters \cup digits \cup {"_", "-"},
       path    |-> letters \cup digits \cup {".", "_", "/", "-"}]

\* The text occurs in s at position p; s.startsWith(text) when p is 1.
OccursAt(s, text, p) ==
  /\ p >= 1
  /\ p + Len(text) - 1 <= Len(s)
  /\ \A i \in 1..Len(text) : s[p + i - 1] = text[i]

\* A greedy run of a character class from position from of s: the position
\* after its last character (from itself when the run is empty).
RunEnd(s, from, chars) ==
  CHOOSE k \in from..(Len(s) + 1) :
    /\ k = Len(s) + 1 \/ s[k] \notin chars
    /\ \A j \in from..(k - 1) : s[j] \in chars

\* content.split('\n').
RECURSIVE SplitLines(_)
SplitLines(content) ==
  IF ~Includes(content, "\n")
  THEN <<content>>
  ELSE LET i == CHOOSE k \in 1..Len(content) :
                  content[k] = "\n" /\ \A j \in 1..(k - 1) : content[j] # "\n"
       IN  <<SubSeq(content, 1, i - 1)>>
             \o SplitLines(SubSeq(content, i + 1, Len(content)))

\* PythonMatch, if the regular expression had to match the whole line.
PythonMatch_WholeLine(trimmed) ==
  LET nameEnd  == RunEnd(trimmed, 1, CharClasses.name)
      opStart  == RunEnd(trimmed, nameEnd, CharClasses.space)
      opEnd    == RunEnd(trimmed, opStart, {"=", ">", "<"})
      verStart == RunEnd(trimmed, opEnd, CharClasses.space)
      verEnd   == RunEnd(trimmed, verStart, CharClasses.version)
  IN  IF nameEnd > 1 /\ opEnd > opStart /\ verEnd > verStart /\ verEnd > Len(trimmed)
      THEN Some([name    |-> SubSeq(trimmed, 1, nameEnd - 1),
                 version |-> SubSeq(trimmed, verStart, verEnd - 1)])
      ELSE None

\* trimmed.match(/^([a-zA-Z0-9_-]+)\s*([=><]+)\s*([0-9.]+)/): groups 1 and 3,
\* None when the line does not match.
PythonMatch(trimmed) ==
  LET nameEnd  == RunEnd(trimmed, 1, CharClasses.name)
      opStart  == RunEnd(trimmed, nameEnd, CharClasses.space)
      opEnd    == RunEnd(trimmed, opStart, {"=", ">", "<"})
      verStart == RunEnd(trimmed, opEnd, CharClasses.space)
      verEnd   == RunEnd(trimmed, verStart, CharClasses.version)
  IN  IF nameEnd > 1 /\ opEnd > opStart /\ verEnd > verStart
      THEN Some([name    |-> SubSeq(trimmed, 1, nameEnd - 1),
                 version |-> SubSeq(trimmed, verStart, verEnd - 1)])
      ELSE None

\* extractPythonPackages; Lines is its loop over the lines.
extractPythonPackages(content, manifestFile) ==
  LET RECURSIVE Lines(_)
      Lines(lines) ==
        IF lines = <<>> THEN <<>>
        ELSE LET trimmed == Trim(Head(lines))
                 rest    == Lines(Tail(lines))
             IN  IF trimmed = <<>> \/ OccursAt(trimmed, <<"#">>, 1)
                 THEN rest
                 ELSE LET match == PythonMatch(trimmed)
                      IN  IF match.some
                          THEN LET version == cleanVersion(match.value.version)
                               IN  IF version # <<>>
                                   THEN <<PackageInfo(match.value.name, version, PYPI,
                                                      manifestFile)>> \o rest
                                   ELSE rest
                          ELSE rest
  IN  Lines(SplitLines(content))

\* trimmed.match(/^(?:require\s+)?([a-zA-Z0-9._/-]+)\s+v([0-9.]+)/): the two
\* groups, None when the line does not match.  The optional prefix is tried
\* first, and left out when the rest fails with it.
GoMatch(trimmed) ==
  LET require == <<"r", "e", "q", "u", "i", "r", "e">>
      \* ([a-zA-Z0-9._/-]+)\s+v([0-9.]+) matched at position from
      moduleAt(from) ==
        LET nameEnd == RunEnd(trimmed, from, CharClasses.path)
            vAt     == RunEnd(trimmed, nameEnd, CharClasses.space)
            verEnd  == RunEnd(trimmed, vAt + 1, CharClasses.version)
        IN  IF /\ nameEnd > from
               /\ vAt > nameEnd
               /\ vAt <= Len(trimmed)
               /\ trimmed[vAt] = "v"
               /\ verEnd > vAt + 1
            THEN Some([name    |-> SubSeq(trimmed, from, nameEnd - 1),
                       version |-> SubSeq(trimmed, vAt + 1, verEnd - 1)])
            ELSE None
      afterRequire == RunEnd(trimmed, Len(require) + 1, CharClasses.space)
      withPrefix ==
        IF OccursAt(trimmed, require, 1) /\ afterRequire > Len(require) + 1
        THEN moduleAt(afterRequire)
        ELSE None
  IN  IF withPrefix.some THEN withPrefix ELSE moduleAt(1)

\* extractGoPackages; Lines is its loop over the lines, inRequireBlock the
\* loop's flag.  The version is pushed as the expression matched it.
extractGoPackages(content, manifestFile) ==
  LET RECURSIVE Lines(_, _)
      Lines(lines, inRequireBlock) ==
        IF lines = <<>> THEN <<>>
        ELSE LET trimmed == Trim(Head(lines))
             IN  IF trimmed = <<"r", "e", "q", "u", "i", "r", "e", " ", "(">>
                 THEN Lines(Tail(lines), TRUE)
                 ELSE IF trimmed = <<")">>
                 THEN Lines(Tail(lines), FALSE)
                 ELSE IF trimmed = <<>> \/ OccursAt(trimmed, <<"/", "/">>, 1)
                 THEN Lines(Tail(lines), inRequireBlock)
                 ELSE LET match == GoMatch(trimmed)
                          rest  == Lines(Tail(lines), inRequireBlock)
                      IN  IF /\ match.some
                             /\ \/ inRequireBlock
                                \/ OccursAt(trimmed, <<"r", "e", "q", "u", "i", "r", "e">>, 1)
                          THEN <<PackageInfo(match.value.name, match.value.version, GO,
                                             manifestFile)>> \o rest
                          ELSE rest
  IN  Lines(SplitLines(content), FALSE)

\* The two trimmed.match of extractRustPackages:
\* /^([a-zA-Z0-9_-]+)\s*=\s*"([0-9.]+)"/ and, when that fails,
\* /^([a-zA-Z0-9_-]+)\s*=\s*\{.*version\s*=\s*"([0-9.]+)"/, whose greedy .*
\* settles on the last 'version' that the rest matches at.
RustMatch(trimmed) ==
  LET versionKey == <<"v", "e", "r", "s", "i", "o", "n">>
      \* \s*=\s*"([0-9.]+)" matched at position from: the group
      quotedVersionAt(from) ==
        LET eqAt    == RunEnd(trimmed, from, CharClasses.space)
            quoteAt == RunEnd(trimmed, eqAt + 1, CharClasses.space)
            verEnd  == RunEnd(trimmed, quoteAt + 1, CharClasses.version)
        IN  IF /\ eqAt <= Len(trimmed)
               /\ trimmed[eqAt] = "="
               /\ quoteAt <= Len(trimmed)
               /\ trimmed[quoteAt] = "\""
               /\ verEnd > quoteAt + 1
               /\ verEnd <= Len(trimmed)
               /\ trimmed[verEnd] = "\""
            THEN Some(SubSeq(trimmed, quoteAt + 1, verEnd - 1))
            ELSE None
      nameEnd == RunEnd(trimmed, 1, CharClasses.name)
      name    == SubSeq(trimmed, 1, nameEnd - 1)
      plain   == quotedVersionAt(nameEnd)
      eqAt    == RunEnd(trimmed, nameEnd, CharClasses.space)
      braceAt == RunEnd(trimmed, eqAt + 1, CharClasses.space)
      keys    == {k \in (braceAt + 1)..Len(trimmed) :
                    /\ OccursAt(trimmed, versionKey, k)
                    /\ quotedVersionAt(k + Len(versionKey)).some
                    /\ \A j \in (braceAt + 1)..(k - 1) : ~IsLineTerminator(trimmed[j])}
  IN  IF nameEnd > 1 /\ plain.some
      THEN Some([name |-> name, version |-> plain.value])
      ELSE IF /\ nameEnd > 1
              /\ eqAt <= Len(trimmed)
              /\ trimmed[eqAt] = "="
              /\ braceAt <= Len(trimmed)
              /\ trimmed[braceAt] = "{"
              /\ keys # {}
      THEN LET k == CHOOSE q \in keys : \A r \in keys : r <= q
           IN  Some([name    |-> name,
                     version |-> quotedVersionAt(k + Len(versionKey)).value])
      ELSE None

\* extractRustPackages, if the header of another table left the flag set.
extractRustPackages_StickyTable(content, manifestFile) ==
  LET dependencies ==
        <<"[", "d", "e", "p", "e", "n", "d", "e", "n", "c", "i", "e", "s", "]">>
      devDependencies ==
        <<"[", "d", "e", "v", "-", "d", "e", "p", "e", "n", "d", "e", "n", "c", "i",
          "e", "s", "]">>
      RECURSIVE Lines(_, _)
      Lines(lines, inDependencies) ==
        IF lines = <<>> THEN <<>>
        ELSE LET trimmed == Trim(Head(lines))
             IN  IF trimmed = dependencies \/ trimmed = devDependencies
                 THEN Lines(Tail(lines), TRUE)
                 ELSE IF OccursAt(trimmed, <<"[">>, 1) /\ inDependencies
                 THEN Lines(Tail(lines), TRUE)
                 ELSE IF \/ trimmed = <<>>
                         \/ OccursAt(trimmed, <<"#">>, 1)
                         \/ ~inDependencies
                 THEN Lines(Tail(lines), inDependencies)
                 ELSE LET match == RustMatch(trimmed)
                          rest  == Lines(Tail(lines), inDependencies)
                      IN  IF match.some
                          THEN LET version == cleanVersion(match.value.version)
                               IN  IF version # <<>>
                                   THEN <<PackageInfo(match.value.name, version,
                                                      CRATES_IO, manifestFile)>> \o rest
                                   ELSE rest
                          ELSE rest
  IN  Lines(SplitLines(content), FALSE)

\* extractRustPackages; Lines is its loop over the lines, inDependencies
\* the loop's flag.
extractRustPackages(content, manifestFile) ==
  LET dependencies ==
        <<"[", "d", "e", "p", "e", "n", "d", "e", "n", "c", "i", "e", "s", "]">>
      devDependencies ==
        <<"[", "d", "e", "v", "-", "d", "e", "p", "e", "n", "d", "e", "n", "c", "i",
          "e", "s", "]">>
      RECURSIVE Lines(_, _)
      Lines(lines, inDependencies) ==
        IF lines = <<>> THEN <<>>
        ELSE LET trimmed == Trim(Head(lines))
             IN  IF trimmed = dependencies \/ trimmed = devDependencies
                 THEN Lines(Tail(lines), TRUE)
                 ELSE IF OccursAt(trimmed, <<"[">>, 1) /\ inDependencies
                 THEN Lines(Tail(lines), FALSE)
                 ELSE IF \/ trimmed = <<>>
                         \/ OccursAt(trimmed, <<"#">>, 1)
                         \/ ~inDependencies
                 THEN Lines(Tail(lines), inDependencies)
                 ELSE LET match == RustMatch(trimmed)
                          rest  == Lines(Tail(lines), inDependencies)
                      IN  IF match.some
                          THEN LET version == cleanVersion(match.value.version)
                               IN  IF version # <<>>
                                   THEN <<PackageInfo(match.value.name, version,
                                                      CRATES_IO, manifestFile)>> \o rest
                                   ELSE rest
                          ELSE rest
  IN  Lines(SplitLines(content), FALSE)

\* The literals of dependencyRegex, in the order the expression has them.
MavenLiterals ==
  << <<"<", "d", "e", "p", "e", "n", "d", "e", "n", "c", "y", ">">>,
     <<"<", "g", "r", "o", "u", "p", "I", "d", ">">>,
     <<"<", "/", "g", "r", "o", "u", "p", "I", "d", ">">>,
     <<"<", "a", "r", "t", "i", "f", "a", "c", "t", "I", "d", ">">>,
     <<"<", "/", "a", "r", "t", "i", "f", "a", "c", "t", "I", "d", ">">>,
     <<"<", "v", "e", "r", "s", "i", "o", "n", ">">>,
     <<"<", "/", "v", "e", "r", "s", "i", "o", "n", ">">>,
     <<"<", "/", "d", "e", "p", "e", "n", "d", "e", "n", "c", "y", ">">> >>

\* The positions literal k of dependencyRegex can take when the text before
\* it starts at from, such that the rest of the expression matches.  The
\* literals 3, 5 and 7 end a group (.*?), whose '.' matches no line
\* terminator; the others follow [\s\S]*?.
RECURSIVE MavenCandidates(_, _, _)
MavenCandidates(s, k, from) ==
  {p \in from..Len(s) :
     /\ OccursAt(s, MavenLiterals[k], p)
     /\ k \in {3, 5, 7} => \A j \in from..(p - 1) : ~IsLineTerminator(s[j])
     /\ \/ k = Len(MavenLiterals)
        \/ MavenCandidates(s, k + 1, p + Len(MavenLiterals[k])) # {}}

\* extractMavenPackages.  Positions gives the positions the literals k.. take
\* in a match, each lazy quantifier taking the shortest text that lets the
\* rest match; Matches is the while loop, dependencyRegex.exec from
\* lastIndex on until it finds no match.
extractMavenPackages(content, manifestFile) ==
  LET RECURSIVE Positions(_, _)
      Positions(k, from) ==
        LET candidates == MavenCandidates(content, k, from)
            p          == CHOOSE q \in candidates : \A r \in candidates : q <= r
        IN  IF k = Len(MavenLiterals)
            THEN <<p>>
            ELSE <<p>> \o Positions(k + 1, p + Len(MavenLiterals[k]))
      RECURSIVE Matches(_)
      Matches(lastIndex) ==
        IF MavenCandidates(content, 1, lastIndex) = {}
        THEN <<>>
        ELSE LET at         == Positions(1, lastIndex)
                 group(k)   == SubSeq(content, at[k] + Len(MavenLiterals[k]),
                                      at[k + 1] - 1)
                 groupId    == Trim(group(2))
                 artifactId == Trim(group(4))
                 version    == cleanVersion(Trim(group(6)))
                 rest       == Matches(at[8] + Len(MavenLiterals[8]))
             IN  IF version # <<>>
                 THEN <<PackageInfo(groupId \o <<":">> \o artifactId, version, MAVEN,
                                    manifestFile)>> \o rest
                 ELSE rest
  IN  Matches(1)

\* extractPackagesFromManifest, field packages of its result.  The content
\* of a package.json is what JSON.parse makes of it, that of every other
\* file its text.
extractPackagesFromManifest(filePath, content) ==
  LET ecosystem == detectManifestType(filePath)
  IN  IF ecosystem = Undefined THEN <<>>
      ELSE IF ecosystem = NPM THEN extractNpmPackages(content, filePath)
      ELSE IF ecosystem = PYPI THEN extractPythonPackages(content.text, filePath)
      ELSE IF ecosystem = GO THEN extractGoPackages(content.text, filePath)
      ELSE IF ecosystem = CRATES_IO THEN extractRustPackages(content.text, filePath)
      ELSE IF ecosystem = MAVEN THEN extractMavenPackages(content.text, filePath)
      ELSE <<>>

\* extractAllPackages, if a file that cannot be parsed ended the loop.
RECURSIVE extractAllPackages_StopAtMalformed(_)
extractAllPackages_StopAtMalformed(files) ==
  IF files = <<>> \/ Head(files).content.type = "malformed"
  THEN <<>>
  ELSE extractPackagesFromManifest(Head(files).path, Head(files).content)
         \o extractAllPackages_StopAtMalformed(Tail(files))

\* extractAllPackages.
RECURSIVE extractAllPackages(_)
extractAllPackages(files) ==
  IF files = <<>>
  THEN <<>>
  ELSE extractPackagesFromManifest(Head(files).path, Head(files).content)
         \o extractAllPackages(Tail(files))

(***************************************************************************)
(* Severity, CVSS score and fixed versions (osv-client.ts:21-133).         *)
(*                                                                         *)
(* A raw vulnerability (OsvApiVulnerability) is a record with fields id,   *)
(* summary, details, aliases, references, affected, severity and           *)
(* database_specific.  Scores are integers in tenths of a point.           *)
(***************************************************************************)
\* String.prototype.toUpperCase.
ToUpperCase(s) ==
  [i \in 1..Len(s) |->
     IF \E k \in 1..26 : LowerChars[k] = s[i]
     THEN UpperChars[CHOOSE k \in 1..26 : LowerChars[k] = s[i]]
     ELSE s[i]]

\* s.includes(sub) for a text sub.
IncludesText(s, sub) ==
  \E i \in 1..(Len(s) - Len(sub) + 1) : SubSeq(s, i, i + Len(sub) - 1) = sub

CVSS_TEXT     == <<"C", "V", "S", "S">>
CRITICAL_TEXT == <<"C", "R", "I", "T", "I", "C", "A", "L">>
HIGH_TEXT     == <<"H", "I", "G", "H">>
MEDIUM_TEXT   == <<"M", "E", "D", "I", "U", "M">>
MODERATE_TEXT == <<"M", "O", "D", "E", "R", "A", "T", "E">>
LOW_TEXT      == <<"L", "O", "W">>

Digits == <<"0", "1", "2", "3", "4", "5", "6", "7", "8", "9">>
IsDigit(c) == \E d \in 1..10 : Digits[d] = c
DigitValue(c) == (CHOOSE d \in 1..10 : Digits[d] = c) - 1

\* The value of a run of decimal digits.
RECURSIVE DecimalValue(_)
DecimalValue(ds) ==
  IF ds = <<>> THEN 0
  ELSE 10 * DecimalValue(SubSeq(ds, 1, Len(ds) - 1)) + DigitValue(ds[Len(ds)])

\* The longest prefix of s made of digits.
DigitPrefix(s) ==
  IF \A i \in 1..Len(s) : IsDigit(s[i])
  THEN s
  ELSE SubSeq(s, 1, (CHOOSE i \in 1..Len(s) :
                       ~IsDigit(s[i]) /\ \A j \in 1..(i - 1) : IsDigit(s[j])) - 1)

\* parseFloat, in tenths (further decimals are cut): None is NaN.  Leading
\* white space is skipped, then a sign, digits, and a '.' with digits are read.
parseFloat(text) ==
  LET t0   == IF \A i \in 1..Len(text) : IsSpace(text[i])
              THEN <<>>
              ELSE SubSeq(text,
                          CHOOSE i \in 1..Len(text) :
                            ~IsSpace(text[i]) /\ \A j \in 1..(i - 1) : IsSpace(text[j]),
                          Len(text))
      neg  == Len(t0) > 0 /\ t0[1] = "-"
      t1   == IF Len(t0) > 0 /\ t0[1] \in {"+", "-"} THEN Tail(t0) ELSE t0
      int  == DigitPrefix(t1)
      t2   == SubSeq(t1, Len(int) + 1, Len(t1))
      frac == IF Len(t2) > 0 /\ t2[1] = "." THEN DigitPrefix(Tail(t2)) ELSE <<>>
      mag  == 10 * DecimalValue(int) + (IF frac = <<>> THEN 0 ELSE DigitValue(frac[1]))
  IN  IF int = <<>> /\ frac = <<>>
      THEN None
      ELSE Some(IF neg THEN 0 - mag ELSE mag)

\* The loop of getCvssScore over the severity array.
RECURSIVE CvssFromSeverity(_)
CvssFromSeverity(sevs) ==
  IF sevs = <<>>
  THEN None
  ELSE IF IncludesText(Head(sevs).type, CVSS_TEXT) /\ parseFloat(Head(sevs).score).some
       THEN parseFloat(Head(sevs).score)
       ELSE CvssFromSeverity(Tail(sevs))

\* getCvssScore: None is undefined.  A database_specific.cvss_score that is
\* falsy (absent or 0) is passed over.
getCvssScore(vuln) ==
  IF /\ vuln.database_specific.some
     /\ vuln.database_specific.value.cvss_score.some
     /\ vuln.database_specific.value.cvss_score.value # 0
  THEN vuln.database_specific.value.cvss_score
  ELSE IF vuln.severity.some /\ Len(vuln.severity.value) > 0
       THEN CvssFromSeverity(vuln.severity.value)
       ELSE None

\* The four substring tests on an upper-cased severity text; None when none
\* of them applies.
SeverityFromText(upper) ==
  IF IncludesText(upper, CRITICAL_TEXT) THEN Some("CRITICAL")
  ELSE IF IncludesText(upper, HIGH_TEXT) THEN Some("HIGH")
  ELSE IF IncludesText(upper, MEDIUM_TEXT) \/ IncludesText(upper, MODERATE_TEXT)
       THEN Some("MEDIUM")
  ELSE IF IncludesText(upper, LOW_TEXT) THEN Some("LOW")
  ELSE None

\* mapOsvSeverity, with UNKNOWN for its default.
mapOsvSeverity_DefaultUnknown(vuln) ==
  LET cvssScore == getCvssScore(vuln)
      bySeverity ==
        IF vuln.severity.some /\ Len(vuln.severity.value) > 0
        THEN SeverityFromText(ToUpperCase(vuln.severity.value[1].type))
        ELSE None
      byDatabase ==
        IF /\ vuln.database_specific.some
           /\ vuln.database_specific.value.severity # Undefined
           /\ vuln.database_specific.value.severity # <<>>
        THEN SeverityFromText(ToUpperCase(vuln.database_specific.value.severity))
        ELSE None
  IN  IF cvssScore.some
      THEN IF cvssScore.value >= 90 THEN "CRITICAL"
           ELSE IF cvssScore.value >= 70 THEN "HIGH"
           ELSE IF cvssScore.value >= 40 THEN "MEDIUM"
           ELSE "LOW"
      ELSE IF bySeverity.some THEN bySeverity.value
      ELSE IF byDatabase.some THEN byDatabase.value
      ELSE "UNKNOWN"

\* mapOsvSeverity.
mapOsvSeverity(vuln) ==
  LET cvssScore == getCvssScore(vuln)
      bySeverity ==
        IF vuln.severity.some /\ Len(vuln.severity.value) > 0
        THEN SeverityFromText(ToUpperCase(vuln.severity.value[1].type))
        ELSE None
      byDatabase ==
        IF /\ vuln.database_specific.some
           /\ vuln.database_specific.value.severity # Undefined
           /\ vuln.database_specific.value.severity # <<>>
        THEN SeverityFromText(ToUpperCase(vuln.database_specific.value.severity))
        ELSE None
  IN  IF cvssScore.some
      THEN IF cvssScore.value >= 90 THEN "CRITICAL"
           ELSE IF cvssScore.value >= 70 THEN "HIGH"
           ELSE IF cvssScore.value >= 40 THEN "MEDIUM"
           ELSE "LOW"
      ELSE IF bySeverity.some THEN bySeverity.value
      ELSE IF byDatabase.some THEN byDatabase.value
      ELSE "MEDIUM"

\* The inner loop of extractFixedVersions: the fixed versions of one range.
RECURSIVE FixedOfEvents(_)
FixedOfEvents(events) ==
  IF events = <<>> THEN <<>>
  ELSE (IF Head(events).fixed # Undefined /\ Head(events).fixed # <<>>
        THEN <<Head(events).fixed>> ELSE <<>>)
       \o FixedOfEvents(Tail(events))

\* The outer loop of extractFixedVersions.
RECURSIVE FixedOfRanges(_)
FixedOfRanges(ranges) ==
  IF ranges = <<>> THEN <<>>
  ELSE (IF Head(ranges).events.some
        THEN FixedOfEvents(Head(ranges).events.value) ELSE <<>>)
       \o FixedOfRanges(Tail(ranges))

\* extractFixedVersions.
extractFixedVersions(ranges) ==
  IF ~ranges.some THEN <<>> ELSE FixedOfRanges(ranges.value)

(***************************************************************************)
(* Conversion to the report format (osv-client.ts:289-343).                *)
(***************************************************************************)
\* Longest first sentence convertOsvVulnerability keeps whole.
SUMMARY_MAX == 200

SECURITY_VULNERABILITY_IN ==
  <<"S", "e", "c", "u", "r", "i", "t", "y", " ", "v", "u", "l", "n", "e", "r", "a",
    "b", "i", "l", "i", "t", "y", " ", "i", "n", " ">>

\* Dedup, keeping the list as it is.
Dedup_KeepAll(list) == list

\* [...new Set(list)]: the first occurrence of every element, in order.
RECURSIVE Dedup(_)
Dedup(list) ==
  IF list = <<>> THEN <<>>
  ELSE LET init == Dedup(SubSeq(list, 1, Len(list) - 1))
           last == list[Len(list)]
       IN  IF \E i \in 1..Len(init) : init[i] = last THEN init ELSE Append(init, last)

\* The loop of convertOsvVulnerability over apiVuln.affected.
RECURSIVE FixedOfAffected(_, _)
FixedOfAffected(affected, pkg) ==
  IF affected = <<>> THEN <<>>
  ELSE (IF Head(affected).package.some /\ Head(affected).package.value.name = pkg.name
        THEN extractFixedVersions(Head(affected).ranges) ELSE <<>>)
       \o FixedOfAffected(Tail(affected), pkg)

\* details.split(/[.\n]/)[0]: the text before the first '.' or newline.
FirstSentence(details) ==
  IF \E i \in 1..Len(details) : details[i] \in {".", "\n"}
  THEN SubSeq(details, 1,
              (CHOOSE i \in 1..Len(details) :
                 /\ details[i] \in {".", "\n"}
                 /\ \A j \in 1..(i - 1) : details[j] \notin {".", "\n"}) - 1)
  ELSE details

\* SummaryOf, trying the details only when there is no summary member.
SummaryOf_DetailsWhenNoSummary(apiVuln, pkg) ==
  LET upstream == IF apiVuln.summary # Undefined THEN Trim(apiVuln.summary) ELSE <<>>
      sentence == FirstSentence(Trim(apiVuln.details))
      second   == IF apiVuln.summary = Undefined /\ apiVuln.details # Undefined /\ apiVuln.details # <<>>
                  THEN IF Len(sentence) > SUMMARY_MAX
                       THEN SubSeq(sentence, 1, SUMMARY_MAX) \o <<".", ".", ".">>
                       ELSE sentence
                  ELSE upstream
  IN  IF second = <<>> THEN SECURITY_VULNERABILITY_IN \o pkg.name ELSE second

\* The summary convertOsvVulnerability settles on.
SummaryOf(apiVuln, pkg) ==
  LET upstream == IF apiVuln.summary # Undefined THEN Trim(apiVuln.summary) ELSE <<>>
      sentence == FirstSentence(Trim(apiVuln.details))
      second   == IF upstream = <<>> /\ apiVuln.details # Undefined /\ apiVuln.details # <<>>
                  THEN IF Len(sentence) > SUMMARY_MAX
                       THEN SubSeq(sentence, 1, SUMMARY_MAX) \o <<".", ".", ".">>
                       ELSE sentence
                  ELSE upstream
  IN  IF second = <<>> THEN SECURITY_VULNERABILITY_IN \o pkg.name ELSE second

\* convertOsvVulnerability.
convertOsvVulnerability(apiVuln, pkg) ==
  [id            |-> apiVuln.id,
   packageName   |-> pkg.name,
   version       |-> pkg.version,
   ecosystem     |-> pkg.ecosystem,
   severity      |-> mapOsvSeverity(apiVuln),
   summary       |-> SummaryOf(apiVuln, pkg),
   details       |-> IF apiVuln.details # Undefined THEN apiVuln.details ELSE <<>>,
   aliases       |-> IF apiVuln.aliases.some THEN apiVuln.aliases.value ELSE <<>>,
   references    |-> IF apiVuln.references.some THEN apiVuln.references.value ELSE <<>>,
   cvssScore     |-> getCvssScore(apiVuln),
   fixedVersions |-> Dedup(IF apiVuln.affected.some /\ Len(apiVuln.affected.value) > 0
                           THEN FixedOfAffected(apiVuln.affected.value, pkg)
                           ELSE <<>>),
   manifestFile  |-> pkg.manifestFile]

(***************************************************************************)
(* The vulnerability database, as far as the scans of the model reach it.  *)
(* The batched query answers each position from the query at that          *)
(* position; a detail record belongs to an identifier.                     *)
(***************************************************************************)
TEXT_A     == <<"a">>
TEXT_A_B   == <<"a", "@", "b">>
TEXT_B     == <<"b">>
TEXT_C     == <<"c">>
TEXT_D     == <<"d">>
TEXT_1     == <<"1">>
TEXT_B_1   == <<"b", "@", "1">>
TEXT_1_2   == <<"1", ".", "2">>
TEXT_C1_2  == <<"^", "1", ".", "2">>
TEXT_T2    == <<"~", "2">>
TEXT_2     == <<"2">>

\* A record of the batched-query response: the identifier and nothing else.
MinimalVulnerability(id) ==
  [id |-> id, summary |-> Undefined, details |-> Undefined, aliases |-> None,
   references |-> None, affected |-> None, severity |-> None,
   database_specific |-> None]

\* GET /v1/vulns/{id}: the full record of an identifier.
OsvDetails(id) ==
  CASE id = "GHSA-1" ->
         [id |-> id,
          summary |-> <<" ", "X", "S", "S", " ">>,
          details |-> <<"B", "a", "d", ".", " ", "M", "o", "r", "e">>,
          aliases |-> Some(<<"CVE-1">>),
          references |-> Some(<<[type |-> "WEB", url |-> "https://osv.dev/GHSA-1"]>>),
          affected |-> Some(<<
              [package |-> Some([ecosystem |-> NPM, name |-> TEXT_D]),
               ranges  |-> Some(<<[type |-> "SEMVER",
                                   events |-> Some(<<[fixed |-> Undefined],
                                                     [fixed |-> TEXT_2]>>)],
                                  [type |-> "SEMVER",
                                   events |-> Some(<<[fixed |-> TEXT_2]>>)]>>)],
              [package |-> Some([ecosystem |-> NPM, name |-> TEXT_A_B]),
               ranges  |-> Some(<<[type |-> "SEMVER",
                                   events |-> Some(<<[fixed |-> TEXT_1_2]>>)]>>)]>>),
          severity |-> None,
          database_specific |-> Some([severity |-> <<"l", "o", "w">>,
                                      cvss_score |-> Some(95)])]
    [] id = "GHSA-2" ->
         [id |-> id,
          summary |-> Undefined,
          details |-> <<"B", "a", "d", ".", " ", "M", "o", "r", "e">>,
          aliases |-> None,
          references |-> None,
          affected |-> Some(<<[package |-> None, ranges |-> None]>>),
          severity |-> Some(<<[type |-> <<"C", "V", "S", "S", "_", "V", "3">>,
                               score |-> <<"6", ".", "0">>]>>),
          database_specific |-> None]
    [] OTHER ->
         [id |-> id,
          summary |-> <<>>,
          details |-> Undefined,
          aliases |-> None,
          references |-> None,
          affected |-> None,
          severity |-> None,
          database_specific |-> Some([severity |-> <<"H", "i", "g", "h">>,
                                      cvss_score |-> None])]

\* POST /v1/querybatch: member vulns of the result for one query.
OsvQueryResult(query) ==
  IF query.package.name = TEXT_A_B /\ query.version = TEXT_1
    THEN Some(<<MinimalVulnerability("GHSA-1")>>)
  ELSE IF query.package.name = TEXT_B
    THEN Some(<<MinimalVulnerability("CVE-3")>>)
  ELSE IF query.package.name = TEXT_D
    THEN Some(<<MinimalVulnerability("GHSA-1"), MinimalVulnerability("GHSA-2")>>)
  ELSE IF query.package.name = TEXT_C
    THEN Some(<<>>)
  ELSE None

\* The body of a successful batched-query response (OsvBatchResponse):
\* results are positionally aligned with the queries.
OsvBatchResponse(request) ==
  [results |-> [i \in 1..Len(request.queries) |->
                  [vulns |-> OsvQueryResult(request.queries[i])]]]

\* The HTTP statuses the database answers with.
HttpStatuses == {200, 429, 500}

\* ResponseOk, taking a server error for a success.
ResponseOk_ServerError(status) == status \in 200..299 \/ status >= 500

\* Response.ok.
ResponseOk(status) == status \in 200..299

\* The messages of the errors a rejected fetch or request.json() throws
\* with: the text is the runtime's, and may be empty.
ThrownMessages == {"fetch failed", ""}

(***************************************************************************)
(* Scan requests.                                                          *)
(***************************************************************************)
OtherContent == [type |-> "text", text |-> <<>>]

PATH_PACKAGE_JSON == PACKAGE_JSON
PATH_WEB_PACKAGE_JSON ==
  <<"w", "e", "b", "/", "P", "a", "c", "k", "a", "g", "e", ".", "J", "S", "O", "N">>
PATH_APP_CSPROJ == <<"A", "p", "p", ".", "c", "s", "p", "r", "o", "j">>
PATH_README     == <<"R", "E", "A", "D", "M", "E", ".", "m", "d">>
PATH_PACKAGE_JSON_BAK ==
  <<"p", "a", "c", "k", "a", "g", "e", ".", "j", "s", "o", "n", ".", "b", "a", "k">>

\* The files a request of the model is made of.
ScanFiles ==
  { \* two dependencies whose names and versions differ
    [path |-> PATH_PACKAGE_JSON,
     content |-> [type |-> "object",
                  dependencies |-> JsonObject(<<
                    [name |-> TEXT_A_B, value |-> JsonString(TEXT_1)],
                    [name |-> TEXT_A,   value |-> JsonString(TEXT_B_1)]>>),
                  devDependencies |-> JsonUndefined]],
    \* the same dependency in both maps, and a version that is no string
    [path |-> PATH_PACKAGE_JSON,
     content |-> [type |-> "object",
                  dependencies |-> JsonObject(<<
                    [name |-> TEXT_B, value |-> JsonString(TEXT_C1_2)]>>),
                  devDependencies |-> JsonObject(<<
                    [name |-> TEXT_B, value |-> JsonString(TEXT_C1_2)],
                    [name |-> TEXT_C, value |-> JsonNumber]>>)]],
    \* one dependency, and one without a usable version
    [path |-> PATH_WEB_PACKAGE_JSON,
     content |-> [type |-> "object",
                  dependencies |-> JsonObject(<<
                    [name |-> TEXT_C, value |-> JsonString(<<" ">>)]>>),
                  devDependencies |-> JsonObject(<<
                    [name |-> TEXT_D, value |-> JsonString(TEXT_T2)]>>)]],
    \* one dependency without vulnerabilities
    [path |-> PATH_PACKAGE_JSON,
     content |-> [type |-> "object",
                  dependencies |-> JsonObject(<<
                    [name |-> TEXT_C, value |-> JsonString(TEXT_1)]>>),
                  devDependencies |-> JsonUndefined]],
    \* not JSON
    [path |-> PATH_PACKAGE_JSON, content |-> MalformedJson],
    \* a manifest of an ecosystem without a parser
    [path |-> PATH_APP_CSPROJ, content |-> OtherContent],
    \* no manifest
    [path |-> PATH_README, content |-> OtherContent],
    \* a manifest name that is not at the end of the path
    [path |-> PATH_PACKAGE_JSON_BAK, content |-> MalformedJson] }

\* The sequences over S of length at most n that list no element twice.
RECURSIVE DistinctSeqsUpTo(_, _)
DistinctSeqsUpTo(S, n) ==
  IF n = 0 THEN {<<>>}
  ELSE LET shorter == DistinctSeqsUpTo(S, n - 1)
           fresh(q) == {x \in S : \A i \in DOMAIN q : q[i] # x}
       IN  shorter \cup UNION {{Append(q, x) : x \in fresh(q)} : q \in shorter}

\* The request bodies: one request.json() fails on, one without files, and
\* those with a list of files, each file listed once.
ScanRequestBodies ==
  {[type |-> "malformed"], [type |-> "object", files |-> None]}
    \cup {[type |-> "object", files |-> Some(fs)] : fs \in DistinctSeqsUpTo(ScanFiles, MaxFiles)}

(***************************************************************************)
(* The scan: the endpoint's action (api.osv-scan, lines 26-162),           *)
(* scanPackages (osv-client.ts:348-386) and queryOsvBatch                  *)
(* (osv-client.ts:157-284), cut at their awaits.                           *)
(***************************************************************************)
VARIABLES
  body,              \* what request.json() yields
  pc,                \* where the scan stands
  manifestFiles,     \* action: the files detectManifestType recognizes
  packages,          \* action: the packages extracted from them
  batches,           \* queryOsvBatch: the slices of packages
  batchIndex,        \* queryOsvBatch: the batch being processed, from 1
  index,             \* queryOsvBatch: the package of the batch being processed, from 1
  data,              \* queryOsvBatch: the body of the batch's response (data, retryData)
  fullVulns,         \* queryOsvBatch: the array Promise.all fills, None while unsettled
  vulnerabilityMap,  \* queryOsvBatch: key -> list of raw vulnerabilities
  pending,           \* the requests in flight
  trace,             \* every request issued and every response received, in order
  result,            \* the ScanResult returned, None until then
  call,              \* a library function called on its own: its name and arguments
  returned           \* the values its calls returned, in order

\* The state of a scan.
scanVars == <<body, pc, manifestFiles, packages, batches, batchIndex, index, data,
              fullVulns, vulnerabilityMap, pending, trace, result>>

vars == <<body, pc, manifestFiles, packages, batches, batchIndex, index, data,
          fullVulns, vulnerabilityMap, pending, trace, result, call, returned>>

EmptyMap == [k \in {} |-> <<>>]

\* Map.prototype.set.
MapSet(map, key, value) ==
  [k \in DOMAIN map \cup {key} |-> IF k = key THEN value ELSE map[k]]

\* Map.prototype.get: None is undefined.
MapGet(map, key) == IF key \in DOMAIN map THEN Some(map[key]) ELSE None

\* Slice, leaving out the last position of the range.
Slice_DropLast(list, from, to) ==
  SubSeq(list, from + 1, IF to - 1 < Len(list) THEN to - 1 ELSE Len(list))

\* packages.slice(from, to), positions counted from 0 as in the source.
Slice(list, from, to) ==
  SubSeq(list, from + 1, IF to < Len(list) THEN to ELSE Len(list))

\* The loop that fills batches, from position i on.
RECURSIVE BatchesFrom(_, _)
BatchesFrom(list, i) ==
  IF i < Len(list)
  THEN <<Slice(list, i, i + MAX_BATCH_SIZE)>> \o BatchesFrom(list, i + MAX_BATCH_SIZE)
  ELSE <<>>

\* The OsvBatchRequest built for a batch.
BatchRequest(batch) ==
  [queries |-> [i \in 1..Len(batch) |->
                  [package |-> [ecosystem |-> batch[i].ecosystem, name |-> batch[i].name],
                   version |-> batch[i].version]]]

\* `${pkg.ecosystem}:${pkg.name}@${pkg.version}`
PackageKey(pkg) == pkg.ecosystem \o <<":">> \o pkg.name \o <<"@">> \o pkg.version

\* RateLimited, retrying after every response that is not ok.
RateLimited_AnyFailure(status) == TRUE

\* On a response that is not ok: retry (the status is 429) or throw.
RateLimited(status) == status = 429

\* result?.vulns && result.vulns.length > 0, for the entry of a response
\* at one position.
HasVulns(results, i) ==
  /\ i <= Len(results)
  /\ results[i].vulns.some
  /\ Len(results[i].vulns.value) > 0

\* fetchVulnerabilityDetails after its fetch settled: the record, or None
\* (null) when the response is not ok or the fetch threw.
fetchVulnerabilityDetails(id, outcome) ==
  IF outcome = "ok" THEN Some(OsvDetails(id)) ELSE None

\* How a detail fetch settles.
DetailOutcomes == {"ok", "notOk", "threw"}

\* DetailsOrMinimal, keeping the minimal record whatever the fetch returned.
DetailsOrMinimal_AlwaysMinimal(fullDetails, vuln) == vuln

\* fullDetails || vuln
DetailsOrMinimal(fullDetails, vuln) ==
  IF fullDetails.some THEN fullDetails.value ELSE vuln

\* Number.prototype.toString in a template literal.
RECURSIVE DecimalText(_)
DecimalText(n) ==
  IF n < 10 THEN Digits[n + 1] ELSE DecimalText(n \div 10) \o Digits[(n % 10) + 1]

\* calculateStats, counting the HIGH entries as critical ones too.
calculateStats_HighAsCritical(vulnerabilities) ==
  LET count(sev) == Cardinality({i \in 1..Len(vulnerabilities) :
                                   vulnerabilities[i].severity = sev})
  IN  [total    |-> Len(vulnerabilities),
       critical |-> count("CRITICAL") + count("HIGH"),
       high     |-> count("HIGH"),
       medium   |-> count("MEDIUM"),
       low      |-> count("LOW")]

\* calculateStats.
calculateStats(vulnerabilities) ==
  LET count(sev) == Cardinality({i \in 1..Len(vulnerabilities) :
                                   vulnerabilities[i].severity = sev})
  IN  [total    |-> Len(vulnerabilities),
       critical |-> count("CRITICAL"),
       high     |-> count("HIGH"),
       medium   |-> count("MEDIUM"),
       low      |-> count("LOW")]

ZeroStats == [total |-> 0, critical |-> 0, high |-> 0, medium |-> 0, low |-> 0]

\* The ScanResult for a request without files (status 400).
NoFilesResult ==
  [success |-> FALSE, vulnerabilities |-> <<>>, stats |-> ZeroStats,
   scannedFiles |-> 0, scannedPackages |-> 0,
   error |-> Some("No files provided for scanning"), status |-> 400]

\* The ScanResult for a request without manifest files (status 400).
NoManifestResult ==
  [success |-> FALSE, vulnerabilities |-> <<>>, stats |-> ZeroStats,
   scannedFiles |-> 0, scannedPackages |-> 0,
   error |-> Some("No dependency manifest files found. Please add package.json, requirements.txt, go.mod, Cargo.toml, or other dependency files."),
   status |-> 400]

\* NoPackagesResult with the counters of the error results.
NoPackagesResult_ZeroFiles(manifests) ==
  [success |-> TRUE, vulnerabilities |-> <<>>, stats |-> ZeroStats,
   scannedFiles |-> 0, scannedPackages |-> 0,
   error |-> None, status |-> 200]

\* The ScanResult when no package was extracted.
NoPackagesResult(manifests) ==
  [success |-> TRUE, vulnerabilities |-> <<>>, stats |-> ZeroStats,
   scannedFiles |-> Len(manifests), scannedPackages |-> 0,
   error |-> None, status |-> 200]

\* The ScanResult of a completed scan.
CompletedResult(vulnerabilities, manifests, pkgs) ==
  [success |-> TRUE, vulnerabilities |-> vulnerabilities,
   stats |-> calculateStats(vulnerabilities),
   scannedFiles |-> Len(manifests), scannedPackages |-> Len(pkgs),
   error |-> None, status |-> 200]

\* CaughtErrorResult, reporting the failed scan as a success.
CaughtErrorResult_Success(error) ==
  [success |-> TRUE, vulnerabilities |-> <<>>, stats |-> ZeroStats,
   scannedFiles |-> 0, scannedPackages |-> 0,
   error |-> Some(IF error.message # ""
                  THEN error.message
                  ELSE "Unknown error occurred during vulnerability scan"),
   status |-> 500]

\* The ScanResult the catch clause of action returns (status 500).
CaughtErrorResult(error) ==
  [success |-> FALSE, vulnerabilities |-> <<>>, stats |-> ZeroStats,
   scannedFiles |-> 0, scannedPackages |-> 0,
   error |-> Some(IF error.message # ""
                  THEN error.message
                  ELSE "Unknown error occurred during vulnerability scan"),
   status |-> 500]

\* FilterManifests with a test that every file passes.
FilterManifests_KeepAll(files) == files

\* files.filter(file => detectManifestType(file.path) !== null)
RECURSIVE FilterManifests(_)
FilterManifests(files) ==
  IF files = <<>> THEN <<>>
  ELSE (IF detectManifestType(Head(files).path) # Undefined
        THEN <<Head(files)>> ELSE <<>>)
       \o FilterManifests(Tail(files))

\* The packages.forEach of scanPackages: every package's list from the map,
\* converted, in package order.
RECURSIVE ConvertAll(_, _)
ConvertAll(pkgs, map) ==
  IF pkgs = <<>> THEN <<>>
  ELSE LET pkg   == Head(pkgs)
           vulns == MapGet(map, PackageKey(pkg))
       IN  (IF vulns.some
            THEN [i \in 1..Len(vulns.value) |-> convertOsvVulnerability(vulns.value[i], pkg)]
            ELSE <<>>)
           \o ConvertAll(Tail(pkgs), map)

Init ==
  /\ body \in ScanRequestBodies
  /\ pc = "start"
  /\ manifestFiles = <<>>
  /\ packages = <<>>
  /\ batches = <<>>
  /\ batchIndex = 1
  /\ index = 1
  /\ data = [results |-> <<>>]
  /\ fullVulns = <<>>
  /\ vulnerabilityMap = EmptyMap
  /\ pending = {}
  /\ trace = <<>>
  /\ result = None
  /\ call = [fn |-> "none"]
  /\ returned = <<>>

\* An error thrown in queryOsvBatch: its catch rethrows it, scanPackages lets
\* it pass, and the catch of action turns it into the ScanResult.
Throw(message) ==
  /\ pc' = "done"
  /\ result' = Some(CaughtErrorResult([message |-> message]))

\* action, from its entry to the call of queryOsvBatch, up to the loop over
\* the batches.
ReceiveRequest ==
  /\ pc = "start"
  /\ UNCHANGED <<call, returned, body, index, data, fullVulns, vulnerabilityMap, pending, trace, batchIndex>>
  /\ IF body.type = "malformed"
     THEN /\ \E message \in ThrownMessages : Throw(message)
          /\ UNCHANGED <<manifestFiles, packages, batches>>
     ELSE IF ~body.files.some \/ Len(body.files.value) = 0
     THEN /\ pc' = "done"
          /\ result' = Some(NoFilesResult)
          /\ UNCHANGED <<manifestFiles, packages, batches>>
     ELSE LET manifests == FilterManifests(body.files.value)
              pkgs      == extractAllPackages(manifests)
          IN  /\ manifestFiles' = manifests
              /\ IF Len(manifests) = 0
                 THEN /\ pc' = "done"
                      /\ result' = Some(NoManifestResult)
                      /\ UNCHANGED <<packages, batches>>
                 ELSE /\ packages' = pkgs
                      /\ IF Len(pkgs) = 0
                         THEN /\ pc' = "done"
                              /\ result' = Some(NoPackagesResult(manifests))
                              /\ UNCHANGED batches
                         ELSE /\ pc' = "loop"
                              /\ batches' = BatchesFrom(pkgs, 0)
                              /\ UNCHANGED result

\* The head of the loop over the batches, with a batch left: build its
\* request and issue it.
IssueBatchQuery ==
  /\ pc = "loop"
  /\ batchIndex <= Len(batches)
  /\ LET req == [kind |-> "querybatch", batch |-> batchIndex, attempt |-> 1]
     IN  /\ pending' = pending \cup {req}
         /\ trace' = Append(trace, [event |-> "request", of |-> req,
                                    request |-> BatchRequest(batches[batchIndex])])
  /\ pc' = "awaitResponse"
  /\ UNCHANGED <<call, returned, body, manifestFiles, packages, batches, batchIndex, index, data,
                 fullVulns, vulnerabilityMap, result>>

\* The loop over the batches is over: queryOsvBatch returns the map,
\* scanPackages converts it and action returns the ScanResult.
ReturnResult ==
  /\ pc = "loop"
  /\ batchIndex > Len(batches)
  /\ pc' = "done"
  /\ result' = Some(CompletedResult(ConvertAll(packages, vulnerabilityMap),
                                    manifestFiles, packages))
  /\ UNCHANGED <<call, returned, body, manifestFiles, packages, batches, batchIndex, index, data,
                 fullVulns, vulnerabilityMap, pending, trace>>

\* The first fetch of a batch is answered.
BatchResponse ==
  /\ pc = "awaitResponse"
  /\ LET req == [kind |-> "querybatch", batch |-> batchIndex, attempt |-> 1]
     IN  /\ req \in pending
         /\ pending' = pending \ {req}
         /\ \E status \in HttpStatuses :
              /\ trace' = Append(trace, [event |-> "response", of |-> req,
                                         status |-> status])
              /\ IF ResponseOk(status)
                 THEN /\ data' = OsvBatchResponse(BatchRequest(batches[batchIndex]))
                      /\ index' = 1
                      /\ pc' = "process"
                      /\ UNCHANGED result
                 ELSE IF RateLimited(status)
                 THEN /\ pc' = "backoff"
                      /\ UNCHANGED <<data, index, result>>
                 ELSE /\ Throw("OSV API request failed: " \o DecimalText(status))
                      /\ UNCHANGED <<data, index>>
  /\ UNCHANGED <<call, returned, body, manifestFiles, packages, batches, batchIndex, fullVulns,
                 vulnerabilityMap>>

\* The first fetch of a batch rejects (no response).
BatchFetchThrows ==
  /\ pc = "awaitResponse"
  /\ LET req == [kind |-> "querybatch", batch |-> batchIndex, attempt |-> 1]
     IN  /\ req \in pending
         /\ pending' = pending \ {req}
         /\ trace' = Append(trace, [event |-> "threw", of |-> req])
         /\ \E message \in ThrownMessages : Throw(message)
  /\ UNCHANGED <<call, returned, body, manifestFiles, packages, batches, batchIndex, index, data,
                 fullVulns, vulnerabilityMap>>

\* BackoffElapsed, if after the two seconds the loop started the batch over
\* instead of issuing the one retry.
BackoffElapsed_StartOver ==
  /\ pc = "backoff"
  /\ pc' = "loop"
  /\ UNCHANGED <<call, returned, body, manifestFiles, packages, batches, batchIndex, index, data,
                 fullVulns, vulnerabilityMap, pending, trace, result>>

\* The two seconds after a 429 are over: the request is issued again.
BackoffElapsed ==
  /\ pc = "backoff"
  /\ LET req == [kind |-> "querybatch", batch |-> batchIndex, attempt |-> 2]
     IN  /\ pending' = pending \cup {req}
         /\ trace' = Append(trace, [event |-> "request", of |-> req,
                                    request |-> BatchRequest(batches[batchIndex])])
  /\ pc' = "awaitRetry"
  /\ UNCHANGED <<call, returned, body, manifestFiles, packages, batches, batchIndex, index, data,
                 fullVulns, vulnerabilityMap, result>>

\* The retry is answered.
RetryResponse ==
  /\ pc = "awaitRetry"
  /\ LET req == [kind |-> "querybatch", batch |-> batchIndex, attempt |-> 2]
     IN  /\ req \in pending
         /\ pending' = pending \ {req}
         /\ \E status \in HttpStatuses :
              /\ trace' = Append(trace, [event |-> "response", of |-> req,
                                         status |-> status])
              /\ IF ResponseOk(status)
                 THEN /\ data' = OsvBatchResponse(BatchRequest(batches[batchIndex]))
                      /\ index' = 1
                      /\ pc' = "retryProcess"
                      /\ UNCHANGED result
                 ELSE /\ Throw("OSV API failed after retry: " \o DecimalText(status))
                      /\ UNCHANGED <<data, index>>
  /\ UNCHANGED <<call, returned, body, manifestFiles, packages, batches, batchIndex, fullVulns,
                 vulnerabilityMap>>

\* The retry rejects (no response).
RetryFetchThrows ==
  /\ pc = "awaitRetry"
  /\ LET req == [kind |-> "querybatch", batch |-> batchIndex, attempt |-> 2]
     IN  /\ req \in pending
         /\ pending' = pending \ {req}
         /\ trace' = Append(trace, [event |-> "threw", of |-> req])
         /\ \E message \in ThrownMessages : Throw(message)
  /\ UNCHANGED <<call, returned, body, manifestFiles, packages, batches, batchIndex, index, data,
                 fullVulns, vulnerabilityMap>>

\* IssueDetailFetches, fetching one vulnerability at a time: only the first
\* fetch is issued before the await.
IssueDetailFetches_OneAtATime ==
  LET vulns == data.results[index].vulns.value
      req   == [kind |-> "vulns", batch |-> batchIndex, index |-> index,
                position |-> 1, id |-> vulns[1].id]
  IN  /\ pending' = pending \cup {req}
      /\ trace' = Append(trace, [event |-> "request", of |-> req])
      /\ fullVulns' = [k \in 1..Len(vulns) |-> None]

\* Promise.all(result.vulns.map(...)) up to its await: one detail fetch is
\* issued for every vulnerability of the package at position index.
IssueDetailFetches ==
  LET vulns == data.results[index].vulns.value
      reqs  == [k \in 1..Len(vulns) |->
                  [kind |-> "vulns", batch |-> batchIndex, index |-> index,
                   position |-> k, id |-> vulns[k].id]]
  IN  /\ pending' = pending \cup {reqs[k] : k \in 1..Len(vulns)}
      /\ trace' = trace \o [k \in 1..Len(vulns) |-> [event |-> "request", of |-> reqs[k]]]
      /\ fullVulns' = [k \in 1..Len(vulns) |-> None]

\* The loop over the packages of a batch answered at once: the package at
\* position index has vulnerabilities.
FetchDetails ==
  /\ pc = "process"
  /\ index <= Len(batches[batchIndex])
  /\ HasVulns(data.results, index)
  /\ IssueDetailFetches
  /\ pc' = "awaitDetails"
  /\ UNCHANGED <<call, returned, body, manifestFiles, packages, batches, batchIndex, index, data,
                 vulnerabilityMap, result>>

\* The same loop: the package at position index has none.
SkipPackage ==
  /\ pc = "process"
  /\ index <= Len(batches[batchIndex])
  /\ ~HasVulns(data.results, index)
  /\ index' = index + 1
  /\ UNCHANGED <<call, returned, body, pc, manifestFiles, packages, batches, batchIndex, data,
                 fullVulns, vulnerabilityMap, pending, trace, result>>

\* The same loop is over: on to the next batch.
EndBatch ==
  /\ pc = "process"
  /\ index > Len(batches[batchIndex])
  /\ batchIndex' = batchIndex + 1
  /\ pc' = "loop"
  /\ UNCHANGED <<call, returned, body, manifestFiles, packages, batches, index, data, fullVulns,
                 vulnerabilityMap, pending, trace, result>>

\* The loop over the packages of a batch answered on the retry: the package
\* at position index has vulnerabilities.
RetryFetchDetails ==
  /\ pc = "retryProcess"
  /\ index <= Len(batches[batchIndex])
  /\ HasVulns(data.results, index)
  /\ IssueDetailFetches
  /\ pc' = "retryAwaitDetails"
  /\ UNCHANGED <<call, returned, body, manifestFiles, packages, batches, batchIndex, index, data,
                 vulnerabilityMap, result>>

\* The same loop: the package at position index has none.
RetrySkipPackage ==
  /\ pc = "retryProcess"
  /\ index <= Len(batches[batchIndex])
  /\ ~HasVulns(data.results, index)
  /\ index' = index + 1
  /\ UNCHANGED <<call, returned, body, pc, manifestFiles, packages, batches, batchIndex, data,
                 fullVulns, vulnerabilityMap, pending, trace, result>>

\* The same loop is over: continue with the next batch.
RetryEndBatch ==
  /\ pc = "retryProcess"
  /\ index > Len(batches[batchIndex])
  /\ batchIndex' = batchIndex + 1
  /\ pc' = "loop"
  /\ UNCHANGED <<call, returned, body, manifestFiles, packages, batches, index, data, fullVulns,
                 vulnerabilityMap, pending, trace, result>>

\* One detail fetch settles: fetchVulnerabilityDetails returns, and the
\* callback of the map yields the record or the minimal one.
DetailResponse ==
  /\ pc \in {"awaitDetails", "retryAwaitDetails"}
  /\ \E req \in pending, outcome \in DetailOutcomes :
       /\ req.kind = "vulns"
       /\ pending' = pending \ {req}
       /\ trace' = Append(trace, [event |-> "response", of |-> req, outcome |-> outcome])
       /\ fullVulns' =
            [fullVulns EXCEPT ![req.position] =
               Some(DetailsOrMinimal(fetchVulnerabilityDetails(req.id, outcome),
                                     data.results[index].vulns.value[req.position]))]
  /\ UNCHANGED <<call, returned, body, pc, manifestFiles, packages, batches, batchIndex, index, data,
                 vulnerabilityMap, result>>

\* StoreFullVulns without the await of Promise.all: the loop goes on while
\* the fetches are in flight.
StoreFullVulns_NoAwait ==
  /\ vulnerabilityMap' = MapSet(vulnerabilityMap,
                                PackageKey(batches[batchIndex][index]), <<>>)
  /\ index' = index + 1

\* Promise.all resolves once every promise has: the list is stored under
\* the package's key.
StoreFullVulns ==
  /\ \A k \in 1..Len(fullVulns) : fullVulns[k].some
  /\ vulnerabilityMap' = MapSet(vulnerabilityMap,
                                PackageKey(batches[batchIndex][index]),
                                [k \in 1..Len(fullVulns) |-> fullVulns[k].value])
  /\ index' = index + 1

\* The await of Promise.all returns, batch answered at once.
JoinDetails ==
  /\ pc = "awaitDetails"
  /\ StoreFullVulns
  /\ pc' = "process"
  /\ UNCHANGED <<call, returned, body, manifestFiles, packages, batches, batchIndex, data, fullVulns,
                 pending, trace, result>>

\* RetryJoinDetails, if the retry path stored the minimal records of the
\* response instead of what the detail fetches returned.
RetryJoinDetails_StoresMinimal ==
  /\ pc = "retryAwaitDetails"
  /\ \A k \in 1..Len(fullVulns) : fullVulns[k].some
  /\ vulnerabilityMap' = MapSet(vulnerabilityMap,
                                PackageKey(batches[batchIndex][index]),
                                data.results[index].vulns.value)
  /\ index' = index + 1
  /\ pc' = "retryProcess"
  /\ UNCHANGED <<call, returned, body, manifestFiles, packages, batches, batchIndex, data, fullVulns,
                 pending, trace, result>>

\* The await of Promise.all returns, batch answered on the retry.
RetryJoinDetails ==
  /\ pc = "retryAwaitDetails"
  /\ StoreFullVulns
  /\ pc' = "retryProcess"
  /\ UNCHANGED <<call, returned, body, manifestFiles, packages, batches, batchIndex, data, fullVulns,
                 pending, trace, result>>

Next ==
  \/ ReceiveRequest
  \/ IssueBatchQuery
  \/ ReturnResult
  \/ BatchResponse
  \/ BatchFetchThrows
  \/ BackoffElapsed
  \/ RetryResponse
  \/ RetryFetchThrows
  \/ FetchDetails
  \/ SkipPackage
  \/ EndBatch
  \/ RetryFetchDetails
  \/ RetrySkipPackage
  \/ RetryEndBatch
  \/ DetailResponse
  \/ JoinDetails
  \/ RetryJoinDetails

Spec == Init /\ [][Next]_vars

\* The handler runs synchronously, without waiting for anything: from its
\* entry up to the loop over the batches (ReceiveRequest) and from the end of
\* the loop to its return (ReturnResult).  These are the states in which
\* ReceiveRequest and ReturnResult are enabled.
RunsSynchronously ==
  \/ pc = "start"
  \/ pc = "loop" /\ batchIndex > Len(batches)

\* A step of the scan that follows a wait: a fetch is issued or settles, the
\* timer of the backoff elapses, the continuation of an await runs.
AwaitedStep == ~RunsSynchronously /\ Next

\* The scan under the scheduling of the source.  Every issued fetch settles,
\* the setTimeout of the backoff elapses and the event loop runs the
\* continuation of every settled await: weak fairness of AwaitedStep.  A
\* synchronous stretch of the handler runs to its end: weak fairness of
\* ReceiveRequest and of ReturnResult, each of which is enabled exactly in
\* its state of RunsSynchronously and leaves it, so that the condition is
\* written with that state.
FairSpec ==
  /\ Init /\ [][Next]_vars
  /\ WF_vars(AwaitedStep)
  /\ []<>~RunsSynchronously

(***************************************************************************)
(* Reading the trace.                                                      *)
(***************************************************************************)
\* The positions of the trace where a batched query for batch b is issued.
QueryRequestsOf(b) ==
  {i \in 1..Len(trace) : /\ trace[i].event = "request"
                         /\ trace[i].of.kind = "querybatch"
                         /\ trace[i].of.batch = b}

\* The positions of the trace where a batched query for batch b settles.
QueryAnswersOf(b) ==
  {i \in 1..Len(trace) : /\ trace[i].event \in {"response", "threw"}
                         /\ trace[i].of.kind = "querybatch"
                         /\ trace[i].of.batch = b}

\* The positions of the trace where a detail fetch of batch b is issued.
DetailRequestsOf(b) ==
  {i \in 1..Len(trace) : /\ trace[i].event = "request"
                         /\ trace[i].of.kind = "vulns"
                         /\ trace[i].of.batch = b}

\* The event is a batched query answered with a status outside 200..299.
AnsweredWithFailure(e) == e.event = "response" /\ e.status \notin 200..299

\* No request for a batch after b was issued.
NoRequestAfterBatch(b) ==
  \A i \in 1..Len(trace) : trace[i].event = "request" => trace[i].of.batch <= b

\* The scan is over and failed.
ScanFailed == pc = "done" /\ result.some /\ ~result.value.success

(***************************************************************************)
(* C1: for every batch, a second batched query is issued only after the    *)
(* first one was answered with status 429, at most two are ever issued,    *)
(* and when the retry is answered without success the scan throws and no   *)
(* request for a later batch is ever issued.                               *)
(***************************************************************************)
C1_RetryOnceAfter429 ==
  \A b \in 1..Len(batches) :
    LET reqs    == QueryRequestsOf(b)
        answers == QueryAnswersOf(b)
    IN  /\ Cardinality(reqs) <= 2
        /\ \A i \in reqs :
             (\E j \in reqs : j < i)
               => \E r \in answers :
                    /\ r < i
                    /\ \A r0 \in answers : r <= r0
                    /\ trace[r].event = "response"
                    /\ trace[r].status = 429
        /\ \A r \in answers :
             (/\ \E r0 \in answers : r0 < r
              /\ AnsweredWithFailure(trace[r]))
               => /\ ScanFailed
                  /\ r = Len(trace)
                  /\ NoRequestAfterBatch(b)

\* A retry was answered 429 again while a later batch was still to come.
C1_Witness ==
  /\ pc = "done"
  /\ \E b \in 1..Len(batches) :
       /\ b < Len(batches)
       /\ Cardinality(QueryRequestsOf(b)) = 2
       /\ \E r \in QueryAnswersOf(b) :
            r = Len(trace) /\ trace[r].event = "response" /\ trace[r].status = 429

(***************************************************************************)
(* C2: when the first response for a batch has a status that is neither a  *)
(* success nor 429, the scan throws after exactly one request for that     *)
(* batch: no retry, no detail fetch for the batch, no request for a later  *)
(* batch.                                                                  *)
(***************************************************************************)
C2_HardErrorNoRetry ==
  \A b \in 1..Len(batches) :
    \A r \in QueryAnswersOf(b) :
      (/\ \A r0 \in QueryAnswersOf(b) : r <= r0
       /\ AnsweredWithFailure(trace[r])
       /\ trace[r].status # 429)
        => /\ ScanFailed
           /\ Cardinality(QueryRequestsOf(b)) = 1
           /\ DetailRequestsOf(b) = {}
           /\ NoRequestAfterBatch(b)
           /\ r = Len(trace)

\* The second batch was answered 500 at once, after a first batch that had
\* detail fetches.
C2_Witness ==
  /\ pc = "done"
  /\ Len(batches) >= 2
  /\ DetailRequestsOf(1) # {}
  /\ \E r \in QueryAnswersOf(2) :
       /\ \A r0 \in QueryAnswersOf(2) : r <= r0
       /\ trace[r].event = "response"
       /\ trace[r].status = 500

(***************************************************************************)
(* C3: whenever a batch hits a fatal upstream error (a first response      *)
(* that is neither a success nor 429, or a retry answered without          *)
(* success), the ScanResult has success = false, a non-empty error, no     *)
(* vulnerabilities and all-zero stats, whatever earlier batches gathered.  *)
(***************************************************************************)
\* Some batch hit a fatal upstream error.
FatalUpstreamError ==
  \E b \in 1..Len(batches) :
    \E r \in QueryAnswersOf(b) :
      /\ AnsweredWithFailure(trace[r])
      /\ \/ trace[r].status # 429
         \/ \E r0 \in QueryAnswersOf(b) : r0 < r

C3_FatalErrorResult ==
  FatalUpstreamError
    => /\ pc = "done"
       /\ result.some
       /\ result.value.success = FALSE
       /\ result.value.error.some
       /\ result.value.error.value # ""
       /\ result.value.vulnerabilities = <<>>
       /\ result.value.stats = [total |-> 0, critical |-> 0, high |-> 0,
                                medium |-> 0, low |-> 0]

\* A fatal error in the second batch, after the first batch put
\* vulnerabilities into the map.
C3_Witness ==
  /\ pc = "done"
  /\ FatalUpstreamError
  /\ DOMAIN vulnerabilityMap # {}
  /\ QueryRequestsOf(2) # {}

(***************************************************************************)
(* C4: a failed detail fetch (response not ok, or the fetch threw) never   *)
(* fails the scan; the entry stored for that vulnerability is the minimal  *)
(* record of the batch response, the other vulnerabilities of the package  *)
(* keep their fetched records, and the stored list has the length and the  *)
(* order of the vulns list of the batch response.                          *)
(***************************************************************************)
\* How the detail fetch for position k of package idx of batch b settled.
DetailOutcomeOf(b, idx, k) ==
  LET i == CHOOSE j \in 1..Len(trace) :
             /\ trace[j].event = "response"
             /\ trace[j].of.kind = "vulns"
             /\ trace[j].of.batch = b
             /\ trace[j].of.index = idx
             /\ trace[j].of.position = k
  IN  trace[i].outcome

\* Some detail fetch failed.
SomeDetailFetchFailed ==
  \E i \in 1..Len(trace) :
    /\ trace[i].event = "response"
    /\ trace[i].of.kind = "vulns"
    /\ trace[i].outcome # "ok"

\* Some batched query failed for good or threw.
SomeBatchQueryFailed ==
  \/ FatalUpstreamError
  \/ \E i \in 1..Len(trace) : trace[i].event = "threw"

C4_DetailFetchFallback ==
  /\ (pc \in {"process", "retryProcess"} /\ index > 1
        /\ HasVulns(data.results, index - 1))
       => LET pkg    == batches[batchIndex][index - 1]
              vulns  == data.results[index - 1].vulns.value
              stored == vulnerabilityMap[PackageKey(pkg)]
          IN  /\ Len(stored) = Len(vulns)
              /\ \A k \in 1..Len(vulns) :
                   stored[k] = IF DetailOutcomeOf(batchIndex, index - 1, k) = "ok"
                               THEN OsvDetails(vulns[k].id)
                               ELSE vulns[k]
  /\ (ScanFailed /\ SomeDetailFetchFailed) => SomeBatchQueryFailed
  /\ (pc = "done" /\ SomeDetailFetchFailed /\ ~SomeBatchQueryFailed)
       => result.value.success

\* A package with two vulnerabilities was just stored: the fetch for the
\* first failed, the fetch for the second succeeded.
C4_Witness ==
  /\ pc \in {"process", "retryProcess"}
  /\ index > 1
  /\ HasVulns(data.results, index - 1)
  /\ Len(data.results[index - 1].vulns.value) = 2
  /\ DetailOutcomeOf(batchIndex, index - 1, 1) \in {"notOk", "threw"}
  /\ DetailOutcomeOf(batchIndex, index - 1, 2) = "ok"

(***************************************************************************)
(* C5: batches are processed one after the other: the batched query of a   *)
(* batch is never issued while the query, the retry or a detail fetch of   *)
(* an earlier batch is outstanding, so detail fetches of two batches are   *)
(* never in flight together.                                               *)
(***************************************************************************)
C5_BatchesSequential ==
  /\ \A r1, r2 \in pending : r1.batch = r2.batch
  /\ \A r \in pending : r.kind = "querybatch" => pending = {r}
  /\ \A b \in 1..Len(batches) :
       \A i \in QueryRequestsOf(b) :
         \A j \in 1..(i - 1) :
           (trace[j].event = "request" /\ trace[j].of.batch < b)
             => \E k \in (j + 1)..(i - 1) :
                  /\ trace[k].event \in {"response", "threw"}
                  /\ trace[k].of = trace[j].of

\* Detail fetches of the second batch are in flight, after detail fetches
\* of the first batch.
C5_Witness ==
  /\ \E r \in pending : r.kind = "vulns" /\ r.batch = 2
  /\ DetailRequestsOf(1) # {}

(***************************************************************************)
(* C6 (as claimed): within one batch, the detail fetches for the matched   *)
(* vulnerabilities of all the packages of the batch are issued             *)
(* concurrently, before any of them settles, and the batch goes on only    *)
(* after every one of them has settled.                                    *)
(***************************************************************************)
\* What the database answers for batch b, position by position.
ResultsOfBatch(b) == OsvBatchResponse(BatchRequest(batches[b])).results

\* The event is the detail request for position k of package idx of batch b.
IsDetailRequest(e, b, idx, k) ==
  /\ e.event = "request"
  /\ e.of.kind = "vulns"
  /\ e.of.batch = b
  /\ e.of.index = idx
  /\ e.of.position = k

\* The event is a detail fetch of package idx of batch b settling.
IsDetailAnswer(e, b, idx) ==
  /\ e.event = "response"
  /\ e.of.kind = "vulns"
  /\ e.of.batch = b
  /\ e.of.index = idx

C6_BatchFetchesConcurrent ==
  \A i \in 1..Len(trace) :
    (trace[i].event = "response" /\ trace[i].of.kind = "vulns")
      => LET b == trace[i].of.batch
         IN  \A idx \in 1..Len(batches[b]) :
               HasVulns(ResultsOfBatch(b), idx)
                 => \A k \in 1..Len(ResultsOfBatch(b)[idx].vulns.value) :
                      \E j \in 1..(i - 1) : IsDetailRequest(trace[j], b, idx, k)

(***************************************************************************)
(* C6 (amended): the detail fetches for the matched vulnerabilities of     *)
(* one package are issued concurrently, before any of them settles; the    *)
(* loop goes on to the next package or batch only after every one of them  *)
(* has settled, so fetches of two packages are never in flight together.   *)
(***************************************************************************)
C6_PackageFetchesConcurrent ==
  /\ \A r1, r2 \in pending :
       (r1.kind = "vulns" /\ r2.kind = "vulns")
         => (r1.batch = r2.batch /\ r1.index = r2.index)
  /\ \A i \in 1..Len(trace) :
       (trace[i].event = "response" /\ trace[i].of.kind = "vulns")
         => LET b   == trace[i].of.batch
                idx == trace[i].of.index
            IN  \A k \in 1..Len(ResultsOfBatch(b)[idx].vulns.value) :
                  \E j \in 1..(i - 1) : IsDetailRequest(trace[j], b, idx, k)
  /\ \A i \in 1..Len(trace) :
       (trace[i].event = "request" /\ trace[i].of.kind = "vulns")
         => LET b   == trace[i].of.batch
                idx == trace[i].of.index
            IN  \A j \in (i + 1)..Len(trace) :
                  (/\ trace[j].event = "request"
                   /\ \/ trace[j].of.batch > b
                      \/ trace[j].of.kind = "vulns" /\ trace[j].of.index > idx)
                    => \E a \in (i + 1)..(j - 1) :
                         /\ IsDetailAnswer(trace[a], b, idx)
                         /\ trace[a].of = trace[i].of

\* Two fetches of one package are in flight together, after the fetch of
\* an earlier package has settled.
C6_Witness ==
  /\ Cardinality(pending) = 2
  /\ \A r \in pending : r.kind = "vulns"
  /\ \E i \in 1..Len(trace) :
       \E b \in 1..batchIndex :
         \E idx \in 1..Len(batches[b]) : IsDetailAnswer(trace[i], b, idx)

(***************************************************************************)
(* C7: queryOsvBatch splits the n packages into ceil(n/B) consecutive      *)
(* slices in input order, each non-empty and of size at most B, every      *)
(* package in exactly one slice; every batched query is positionally       *)
(* aligned with the packages of its slice, and a scan that completes       *)
(* without a 429 issues exactly one batched query per slice.               *)
(***************************************************************************)
\* Some batched query was answered 429.
Some429 ==
  \E i \in 1..Len(trace) :
    /\ trace[i].event = "response"
    /\ trace[i].of.kind = "querybatch"
    /\ trace[i].status = 429

RECURSIVE OwnAttribution(_)
OwnAttribution(pkgs) ==
  IF pkgs = <<>> THEN <<>>
  ELSE LET pkg == Head(pkgs)
           own == OsvQueryResult([package |-> [ecosystem |-> pkg.ecosystem,
                                               name |-> pkg.name],
                                  version |-> pkg.version])
       IN  (IF own.some
            THEN [k \in 1..Len(own.value) |->
                    [id |-> own.value[k].id, ecosystem |-> pkg.ecosystem,
                     packageName |-> pkg.name, version |-> pkg.version]]
            ELSE <<>>)
           \o OwnAttribution(Tail(pkgs))

C8_RejoinByIdentity ==
  (pc = "done" /\ result.value.success)
    => /\ \A i, j \in 1..Len(packages) :
            (\/ packages[i].ecosystem # packages[j].ecosystem
             \/ packages[i].name # packages[j].name
             \/ packages[i].version # packages[j].version)
              => PackageKey(packages[i]) # PackageKey(packages[j])
       /\ [k \in 1..Len(result.value.vulnerabilities) |->
             [id          |-> result.value.vulnerabilities[k].id,
              ecosystem   |-> result.value.vulnerabilities[k].ecosystem,
              packageName |-> result.value.vulnerabilities[k].packageName,
              version     |-> result.value.vulnerabilities[k].version]]
            = OwnAttribution(packages)

(***************************************************************************)
(* C9: a request without files, or with no file recognized as a manifest,  *)
(* gets success = false with a non-empty error, no vulnerabilities and     *)
(* zero stats, and no request to the vulnerability database is issued.     *)
(***************************************************************************)
\* The request has no files, or none of them is a manifest.
NothingToScan ==
  /\ body.type = "object"
  /\ \/ ~body.files.some
     \/ \A i \in 1..Len(body.files.value) :
          detectManifestType(body.files.value[i].path) = Undefined

C9_NothingToScan ==
  NothingToScan
    => /\ trace = <<>>
       /\ pending = {}
       /\ pc \in {"start", "done"}
       /\ pc = "done"
            => /\ result.some
               /\ result.value.success = FALSE
               /\ result.value.error.some
               /\ result.value.error.value # ""
               /\ result.value.vulnerabilities = <<>>
               /\ result.value.stats = [total |-> 0, critical |-> 0, high |-> 0,
                                        medium |-> 0, low |-> 0]

\* A request with two files, neither a manifest, was answered.
C9_Witness ==
  /\ pc = "done"
  /\ NothingToScan
  /\ body.files.some
  /\ Len(body.files.value) = 2

(***************************************************************************)
(* C10: when a manifest file is recognized but no package is extracted     *)
(* from the recognized files, the scan returns success = true with no      *)
(* vulnerabilities, zero stats, scannedPackages = 0 and scannedFiles the   *)
(* number of recognized manifest files, and issues no request.             *)
(***************************************************************************)
\* The positions of the request's files that are manifests.
RecognizedFiles ==
  {i \in 1..Len(body.files.value) :
     detectManifestType(body.files.value[i].path) # Undefined}

\* Some file is a manifest and no manifest yields a package.
ManifestsWithoutPackages ==
  /\ body.type = "object"
  /\ body.files.some
  /\ \E i \in 1..Len(body.files.value) :
       detectManifestType(body.files.value[i].path) # Undefined
  /\ \A i \in 1..Len(body.files.value) :
       detectManifestType(body.files.value[i].path) # Undefined
         => extractPackagesFromManifest(body.files.value[i].path,
                                        body.files.value[i].content) = <<>>

C10_NoPackages ==
  ManifestsWithoutPackages
    => /\ trace = <<>>
       /\ pending = {}
       /\ pc \in {"start", "done"}
       /\ pc = "done"
            => /\ result.some
               /\ result.value.success = TRUE
               /\ ~result.value.error.some
               /\ result.value.vulnerabilities = <<>>
               /\ result.value.stats = [total |-> 0, critical |-> 0, high |-> 0,
                                        medium |-> 0, low |-> 0]
               /\ result.value.scannedPackages = 0
               /\ result.value.scannedFiles = Cardinality(RecognizedFiles)

\* A request with a manifest that yields no package and a file that is no
\* manifest was answered.
C10_Witness ==
  /\ pc = "done"
  /\ ManifestsWithoutPackages
  /\ Len(body.files.value) = 2
  /\ Cardinality(RecognizedFiles) = 1

(***************************************************************************)
(* C11: in the ScanResult of every scan in which a manifest file was       *)
(* recognized, scannedFiles is the number of recognized manifest files     *)
(* and scannedPackages the number of packages parsed from them, however    *)
(* the vulnerability lookup ended.                                         *)
(***************************************************************************)
C11_ScannedCounts ==
  (/\ pc = "done"
   /\ body.type = "object"
   /\ body.files.some
   /\ RecognizedFiles # {})
    => /\ result.value.scannedFiles = Cardinality(RecognizedFiles)
       /\ result.value.scannedPackages
            = Len(extractAllPackages(body.files.value))

(***************************************************************************)
(* C12: in every ScanResult, stats.critical, stats.high, stats.medium and  *)
(* stats.low are the numbers of entries of the vulnerabilities list with   *)
(* that severity, and stats.total is the length of the list.               *)
(***************************************************************************)
\* The number of entries of vs whose severity is sev.
RECURSIVE SeverityCount(_, _)
SeverityCount(vs, sev) ==
  IF vs = <<>> THEN 0
  ELSE (IF Head(vs).severity = sev THEN 1 ELSE 0) + SeverityCount(Tail(vs), sev)

C12_StatsCountSeverities ==
  (pc = "done" /\ result.some)
    => LET vs    == result.value.vulnerabilities
           stats == result.value.stats
       IN  /\ stats.total    = Len(vs)
           /\ stats.critical = SeverityCount(vs, "CRITICAL")
           /\ stats.high     = SeverityCount(vs, "HIGH")
           /\ stats.medium   = SeverityCount(vs, "MEDIUM")
           /\ stats.low      = SeverityCount(vs, "LOW")

\* A scan returned vulnerabilities of three severities, two of them of the
\* same one.
C12_Witness ==
  /\ pc = "done"
  /\ result.some
  /\ result.value.success
  /\ result.value.stats.critical >= 1
  /\ result.value.stats.high >= 2
  /\ result.value.stats.medium >= 1

(***************************************************************************)
(* Library functions called on their own.  A call is a record with the     *)
(* function's name in field fn and its arguments; LibrarySpec draws the    *)
(* arguments from the bounded sets below, and its actions apply the        *)
(* function and append what it returns to returned.  No scan runs.         *)
(***************************************************************************)
\* The scan variables while no scan runs.
NoScan ==
  /\ body = [type |-> "malformed"]
  /\ pc = "idle"
  /\ manifestFiles = <<>>
  /\ packages = <<>>
  /\ batches = <<>>
  /\ batchIndex = 1
  /\ index = 1
  /\ data = [results |-> <<>>]
  /\ fullVulns = <<>>
  /\ vulnerabilityMap = EmptyMap
  /\ pending = {}
  /\ trace = <<>>
  /\ result = None

\* The sequences over S of length at most n.
RECURSIVE SeqsUpTo(_, _)
SeqsUpTo(S, n) ==
  IF n = 0 THEN {<<>>}
  ELSE LET shorter == SeqsUpTo(S, n - 1)
       IN  shorter \cup {Append(q, x) : q \in shorter, x \in S}

(***************************************************************************)
(* mapOsvSeverity on raw vulnerabilities (osv-client.ts:21-110).           *)
(***************************************************************************)
\* Longest severity array of a raw vulnerability.
MaxSeverities == 2

\* The calls of mapOsvSeverity: raw vulnerabilities with the members it
\* reads, a severity array (OsvSeverity[]) and database_specific, whose
\* cvss_score is in tenths.
SeverityCalls ==
  LET types  == { <<"C", "V", "S", "S", "_", "V", "3">>,
                  <<"c", "v", "s", "s", " ", "m", "o", "d", "e", "r", "a", "t", "e">>,
                  <<"E", "C", "O", "S", "Y", "S", "T", "E", "M">> }
      scores == { <<"9", ".", "5">>,
                  <<"3", ".", "9">>,
                  <<"0">>,
                  <<"C", "V", "S", "S", ":", "3", ".", "1", "/", "A", "V", ":", "N">> }
      databaseSeverities ==
        { Undefined, <<"H", "i", "g", "h">>, <<"u", "n", "k", "n", "o", "w", "n">> }
      databaseScores ==
        {None} \cup {Some(x) : x \in {0, 39, 40, 60, 69, 70, 89, 90, 95}}
      databaseSpecifics ==
        {None} \cup {Some(d) : d \in [severity   : databaseSeverities,
                                      cvss_score : databaseScores]}
      severities ==
        {None} \cup {Some(q) : q \in SeqsUpTo([type : types, score : scores],
                                              MaxSeverities)}
  IN  { [fn   |-> "mapOsvSeverity",
         vuln |-> [id |-> "GHSA-1", summary |-> Undefined, details |-> Undefined,
                   aliases |-> None, references |-> None, affected |-> None,
                   severity |-> sv, database_specific |-> d]] :
          sv \in severities, d \in databaseSpecifics }

\* mapOsvSeverity(vuln) returns.
MapOsvSeverityReturns ==
  /\ call.fn = "mapOsvSeverity"
  /\ returned = <<>>
  /\ returned' = <<mapOsvSeverity(call.vuln)>>
  /\ UNCHANGED <<call, scanVars>>

\* The severity of a score in tenths of a point.
SeverityOfScore(score) ==
  IF score >= 90 THEN "CRITICAL"
  ELSE IF score >= 70 THEN "HIGH"
  ELSE IF score >= 40 THEN "MEDIUM"
  ELSE "LOW"

\* The CVSS score present on a raw vulnerability: database_specific.cvss_score,
\* else the first numeric score of a severity entry whose type contains
\* 'CVSS'; None when there is none.
RECURSIVE FirstNumericCvss(_)
FirstNumericCvss(sevs) ==
  IF sevs = <<>> THEN None
  ELSE IF IncludesText(Head(sevs).type, CVSS_TEXT) /\ parseFloat(Head(sevs).score).some
       THEN parseFloat(Head(sevs).score)
       ELSE FirstNumericCvss(Tail(sevs))

PresentScore(vuln) ==
  IF vuln.database_specific.some /\ vuln.database_specific.value.cvss_score.some
  THEN vuln.database_specific.value.cvss_score
  ELSE IF vuln.severity.some THEN FirstNumericCvss(vuln.severity.value)
  ELSE None

(***************************************************************************)
(* C13: whenever a CVSS numeric score is present on a raw vulnerability,   *)
(* mapOsvSeverity classifies by that score alone: >= 9.0 CRITICAL,         *)
(* >= 7.0 HIGH, >= 4.0 MEDIUM, and every present score below 4.0, 0        *)
(* included, LOW.                                                          *)
(***************************************************************************)
C13_ScoreAlone ==
  (call.fn = "mapOsvSeverity" /\ returned # <<>> /\ PresentScore(call.vuln).some)
    => returned[1] = SeverityOfScore(PresentScore(call.vuln).value)

\* The text contains one of the severity words, whatever its case.
NamesSeverity(text) ==
  \E word \in {CRITICAL_TEXT, HIGH_TEXT, MEDIUM_TEXT, MODERATE_TEXT, LOW_TEXT} :
    IncludesText(ToUpperCase(text), word)

\* The raw vulnerability carries no CVSS score and no text naming a severity.
NoRuleApplies(vuln) ==
  /\ ~PresentScore(vuln).some
  /\ vuln.severity.some
       => \A i \in 1..Len(vuln.severity.value) :
            /\ ~NamesSeverity(vuln.severity.value[i].type)
            /\ ~NamesSeverity(vuln.severity.value[i].score)
  /\ vuln.database_specific.some
       => \/ vuln.database_specific.value.severity = Undefined
          \/ ~NamesSeverity(vuln.database_specific.value.severity)

(***************************************************************************)
(* C14: mapOsvSeverity is total and never returns UNKNOWN: for every raw   *)
(* vulnerability it returns one of CRITICAL, HIGH, MEDIUM, LOW, and        *)
(* MEDIUM when the vulnerability has no CVSS score and no text naming a    *)
(* severity.                                                               *)
(***************************************************************************)
C14_TotalNeverUnknown ==
  call.fn = "mapOsvSeverity"
    => /\ mapOsvSeverity(call.vuln) \in {"CRITICAL", "HIGH", "MEDIUM", "LOW"}
       /\ returned # <<>>
            => /\ returned[1] \in {"CRITICAL", "HIGH", "MEDIUM", "LOW"}
               /\ NoRuleApplies(call.vuln) => returned[1] = "MEDIUM"

\* mapOsvSeverity returned for a vulnerability whose severity entries and
\* database severity name no severity and carry no score.
C14_Witness ==
  /\ call.fn = "mapOsvSeverity"
  /\ returned = <<"MEDIUM">>
  /\ NoRuleApplies(call.vuln)
  /\ call.vuln.severity.some
  /\ Len(call.vuln.severity.value) = 2
  /\ call.vuln.database_specific.some
  /\ call.vuln.database_specific.value.severity # Undefined

(***************************************************************************)
(* convertOsvVulnerability on raw vulnerabilities and packages             *)
(* (osv-client.ts:289-343).                                                *)
(***************************************************************************)
\* Longest affected array of a raw vulnerability.
MaxAffected == 2

\* A text of n characters without a period or newline.
LongText(n) == [i \in 1..n |-> "a"]

\* The calls of convertOsvVulnerability: raw vulnerabilities with the
\* members it reads, an affected array (OsvAffected[]) under one summary, or
\* the summary and details texts without affected entries, and a package.
ConvertCalls ==
  LET rangeEvents ==
        { None,
          Some(<<[fixed |-> Undefined], [fixed |-> TEXT_1]>>),
          Some(<<[fixed |-> TEXT_1], [fixed |-> TEXT_2], [fixed |-> TEXT_1]>>),
          Some(<<[fixed |-> TEXT_1_2]>>) }
      ranges ==
        { None, Some(<<>>) }
          \cup {Some(<<[type |-> "SEMVER", events |-> e]>>) : e \in rangeEvents}
          \cup {Some(<<[type |-> "SEMVER", events |-> Some(<<[fixed |-> TEXT_2]>>)],
                       [type |-> "ECOSYSTEM",
                        events |-> Some(<<[fixed |-> TEXT_1], [fixed |-> TEXT_2]>>)]>>)}
      affectedEntries ==
        [package : {None, Some([ecosystem |-> NPM, name |-> TEXT_A]),
                    Some([ecosystem |-> NPM, name |-> TEXT_B])},
         ranges  : ranges]
      summaries == { Undefined, <<>>, <<" ", "\n">>, <<" ", "X", "S", "S", " ">> }
      details ==
        { Undefined, <<>>, <<" ">>,
          <<"B", "a", "d", ".", " ", "M", "o", "r", "e">>,
          <<" ", "B", "a", "d", " ", "\n", "M", "o", "r", "e", " ">>,
          <<" ", ".", "M", "o", "r", "e">>,
          <<"\n", "\n">>,
          LongText(SUMMARY_MAX),
          LongText(SUMMARY_MAX + 1),
          <<" ">> \o LongText(SUMMARY_MAX) \o <<" ">>,
          LongText(SUMMARY_MAX + 2) \o <<".", "b">>,
          <<"B", "a", "d", ".">> \o LongText(SUMMARY_MAX + 1) }
      vulnerability(summary, detail, affected) ==
        [id |-> "GHSA-1", summary |-> summary, details |-> detail, aliases |-> None,
         references |-> None, affected |-> affected, severity |-> None,
         database_specific |-> None]
      pkgs ==
        {PackageInfo(name, TEXT_1, NPM, PATH_PACKAGE_JSON) : name \in {TEXT_A, TEXT_B}}
  IN  { [fn |-> "convertOsvVulnerability",
         apiVuln |-> vulnerability(<<" ", "X", "S", "S", " ">>, Undefined, a),
         pkg |-> p] :
          a \in {None} \cup {Some(q) : q \in SeqsUpTo(affectedEntries, MaxAffected)},
          p \in pkgs }
        \cup
      { [fn |-> "convertOsvVulnerability",
         apiVuln |-> vulnerability(sm, d, None),
         pkg |-> p] :
          sm \in summaries, d \in details, p \in pkgs }

\* convertOsvVulnerability(apiVuln, pkg) returns.
ConvertOsvVulnerabilityReturns ==
  /\ call.fn = "convertOsvVulnerability"
  /\ returned = <<>>
  /\ returned' = <<convertOsvVulnerability(call.apiVuln, call.pkg)>>
  /\ UNCHANGED <<call, scanVars>>

\* The 'fixed' event values in the ranges of the affected entries of vuln
\* whose package name is name.
FixedEventsFor(vuln, name) ==
  IF ~vuln.affected.some THEN {}
  ELSE LET aff == vuln.affected.value
       IN  { v \in {TEXT_1, TEXT_2, TEXT_1_2} :
               \E i \in DOMAIN aff :
                 /\ aff[i].package.some
                 /\ aff[i].package.value.name = name
                 /\ aff[i].ranges.some
                 /\ \E r \in DOMAIN aff[i].ranges.value :
                      /\ aff[i].ranges.value[r].events.some
                      /\ \E e \in DOMAIN aff[i].ranges.value[r].events.value :
                           aff[i].ranges.value[r].events.value[e].fixed = v }

(***************************************************************************)
(* C15: fixedVersions of a converted vulnerability has no duplicate        *)
(* entries and is, as a set, the set of 'fixed' event values in the        *)
(* ranges of the affected entries whose package name is pkg.name; fixed    *)
(* events of entries for other package names, or without a package, do     *)
(* not appear.                                                             *)
(***************************************************************************)
C15_FixedVersions ==
  (call.fn = "convertOsvVulnerability" /\ returned # <<>>)
    => LET fixedVersions == returned[1].fixedVersions
       IN  /\ \A i, j \in DOMAIN fixedVersions :
                fixedVersions[i] = fixedVersions[j] => i = j
           /\ {fixedVersions[i] : i \in DOMAIN fixedVersions}
                = FixedEventsFor(call.apiVuln, call.pkg.name)

\* A vulnerability with a fixed version repeated for the package, and an
\* entry for another package with a fixed version of its own, was converted.
C15_Witness ==
  /\ call.fn = "convertOsvVulnerability"
  /\ returned # <<>>
  /\ call.pkg.name = TEXT_A
  /\ returned[1].fixedVersions = <<TEXT_1, TEXT_2>>
  /\ call.apiVuln.affected.some
  /\ Len(call.apiVuln.affected.value) = 2
  /\ call.apiVuln.affected.value[1].ranges
       = Some(<<[type |-> "SEMVER",
                 events |-> Some(<<[fixed |-> TEXT_1], [fixed |-> TEXT_2],
                                   [fixed |-> TEXT_1]>>)]>>)
  /\ FixedEventsFor(call.apiVuln, TEXT_B) = {TEXT_1_2}

\* The text before the first period or newline of text.
BeforeFirstStop(text) ==
  LET stops == {i \in DOMAIN text : text[i] \in {".", "\n"}}
  IN  IF stops = {} THEN text
      ELSE SubSeq(text, 1, (CHOOSE i \in stops : \A j \in stops : i <= j) - 1)

\* The trimmed upstream summary of a raw vulnerability, empty when absent.
UpstreamSummary(vuln) ==
  IF vuln.summary = Undefined THEN <<>> ELSE Trim(vuln.summary)

\* The first sentence of the trimmed details, cut to SUMMARY_MAX characters
\* plus an ellipsis when longer; empty when there are no details.
DetailsSentence(vuln) ==
  IF vuln.details = Undefined THEN <<>>
  ELSE LET sentence == BeforeFirstStop(Trim(vuln.details))
       IN  IF Len(sentence) > SUMMARY_MAX
           THEN [i \in 1..(SUMMARY_MAX + 3) |->
                   IF i <= SUMMARY_MAX THEN sentence[i] ELSE "."]
           ELSE sentence

(***************************************************************************)
(* C16: the summary of a converted vulnerability is never empty: it is     *)
(* the trimmed upstream summary if that is non-empty; else the first       *)
(* sentence of the trimmed details (the text before the first period or    *)
(* newline, cut to 200 characters plus an ellipsis when longer) if that    *)
(* is non-empty; else 'Security vulnerability in <packageName>', which is  *)
(* used exactly when both earlier candidates are empty.                    *)
(***************************************************************************)
C16_SummaryPreference ==
  (call.fn = "convertOsvVulnerability" /\ returned # <<>>)
    => LET summary  == returned[1].summary
           upstream == UpstreamSummary(call.apiVuln)
           sentence == DetailsSentence(call.apiVuln)
           fallback == SECURITY_VULNERABILITY_IN \o call.pkg.name
       IN  /\ summary # <<>>
           /\ upstream # <<>> => summary = upstream
           /\ (upstream = <<>> /\ sentence # <<>>) => summary = sentence
           /\ (upstream = <<>> /\ sentence = <<>>) <=> summary = fallback

\* A vulnerability without a usable summary, whose first sentence is longer
\* than 200 characters, was converted.
C16_Witness ==
  /\ call.fn = "convertOsvVulnerability"
  /\ returned # <<>>
  /\ UpstreamSummary(call.apiVuln) = <<>>
  /\ call.apiVuln.summary # Undefined
  /\ Len(returned[1].summary) = SUMMARY_MAX + 3
  /\ returned[1].summary[SUMMARY_MAX + 3] = "."
  /\ Len(call.apiVuln.details) > SUMMARY_MAX + 3

(***************************************************************************)
(* cleanVersion on version texts (osv.ts:189-208).                         *)
(***************************************************************************)
\* Longest version text drawn from the alphabet.
MaxVersionLen == 3

\* The calls of cleanVersion: every text of at most MaxVersionLen
\* characters over a digit, letters, the wildcard markers, the separators
\* cleanVersion looks for, the constraint characters and white space; the
\* version texts of the documentation; and undefined.
VersionCalls ==
  LET alphabet == {"1", "a", "x", ".", "*", "-", "|", "^", "~", ">", "=", "<", " ", "\n"}
      documented ==
        { <<"1", ".", "2", ".", "x">>,
          <<"1", ".", "x">>,
          <<">", "=", "1", ".", "2", " ", "<", "2">>,
          <<"^", "1", ".", "2", " ", "|", "|", " ", "^", "2">> }
  IN  { [fn |-> "cleanVersion", version |-> v] :
          v \in SeqsUpTo(alphabet, MaxVersionLen) \cup documented \cup {Undefined} }

\* cleanVersion(version) returns.
CleanVersionReturns ==
  /\ call.fn = "cleanVersion"
  /\ returned = <<>>
  /\ returned' = <<cleanVersion(call.version)>>
  /\ UNCHANGED <<call, scanVars>>

\* cleanVersion, called on what it returned, returns.
CleanVersionAgainReturns ==
  /\ call.fn = "cleanVersion"
  /\ Len(returned) = 1
  /\ returned' = Append(returned, cleanVersion(returned[1]))
  /\ UNCHANGED <<call, scanVars>>

(***************************************************************************)
(* C17: cleanVersion is idempotent: cleanVersion(cleanVersion(v)) =        *)
(* cleanVersion(v) for every text v over the alphabet.                     *)
(***************************************************************************)
C17_Idempotent ==
  (call.fn = "cleanVersion" /\ Len(returned) = 2) => returned[2] = returned[1]

(***************************************************************************)
(* C18: when the cleaned version contains a wildcard marker, cleanVersion  *)
(* replaces only the wildcard segment with 0 and keeps every segment       *)
(* before it: cleanVersion('1.2.x') = '1.2.0' and cleanVersion('1.x') =    *)
(* '1.0'.                                                                  *)
(***************************************************************************)
C18_WildcardSegment ==
  (call.fn = "cleanVersion" /\ returned # <<>>)
    => /\ call.version = <<"1", ".", "2", ".", "x">> => returned[1] = <<"1", ".", "2", ".", "0">>
       /\ call.version = <<"1", ".", "x">> => returned[1] = <<"1", ".", "0">>


(***************************************************************************)
(* The manifest parsers on manifests of a few entries (osv.ts:213-482).    *)
(***************************************************************************)
\* Most lines of a text manifest, and most blocks of a pom.xml.
MaxLines   == 2
\* Most entries of a dependency map of a package.json.
MaxEntries == 2

\* The requirements.txt of the documented example: two requirements with a
\* comment line between them and a newline at the end.
SCENARIO_A_REQUIREMENTS ==
  <<"f", "l", "a", "s", "k", "=", "=", "2", ".", "0", ".", "1", "\n",
    "#", " ", "c", "o", "m", "m", "e", "n", "t", "\n",
    "d", "j", "a", "n", "g", "o", ">", "=", "3", ".", "2", "\n">>

\* The Cargo.toml of the documented example: one dependency in inline-table
\* form under [dependencies].
SCENARIO_F_CARGO_TOML ==
  <<"[", "d", "e", "p", "e", "n", "d", "e", "n", "c", "i", "e", "s", "]", "\n",
    "s", "e", "r", "d", "e", " ", "=", " ", "{", " ",
    "v", "e", "r", "s", "i", "o", "n", " ", "=", " ", "\"", "1", ".", "0", ".", "1", "0", "0", "\"", ",", " ",
    "f", "e", "a", "t", "u", "r", "e", "s", " ", "=", " ", "[", "\"", "d", "e", "r", "i", "v", "e", "\"", "]",
    " ", "}">>

\* The calls of the manifest parsers.  A text manifest is made of at most
\* MaxLines lines of its kind, a pom.xml of as many <dependency> blocks,
\* one of them without a <version> element; the maps of a package.json are
\* absent or have at most MaxEntries entries of distinct names, whose value
\* is a version, a constraint that names no version, or no string.
ParserCalls ==
  LET RECURSIVE JoinLines(_)
      JoinLines(lines) ==
        IF lines = <<>> THEN <<>>
        ELSE IF Len(lines) = 1 THEN Head(lines)
        ELSE Head(lines) \o <<"\n">> \o JoinLines(Tail(lines))
      texts(sampleLines) == {JoinLines(q) : q \in SeqsUpTo(sampleLines, MaxLines)}
      pythonLines ==
        { <<"a", "=", "=", "1", ".", "2">>,
          <<" ", "b", " ", ">", "=", " ", "2", ".">>,
          <<"#", "c", "=", "=", "1">>,
          <<"d">>,
          <<"e", "[", "x", "]", "=", "=", "1">>,
          <<"a", "=", "=", "1", ".", "2", ";", "x", "<", "\"", "3", "\"">>,
          <<"f", "=", "=", ".">> }
      goLines ==
        { <<"r", "e", "q", "u", "i", "r", "e", " ", "a", "/", "b", " ", "v", "1", ".", "2">>,
          <<"r", "e", "q", "u", "i", "r", "e", " ", "(">>,
          <<")">>,
          <<"c", "/", "d", " ", "v", "0", ".", "1", " ", "/", "/", " ", "i", "n", "d",
            "i", "r", "e", "c", "t">>,
          <<"/", "/", " ", "e", " ", "v", "1">>,
          <<"r", "e", "q", "u", "i", "r", "e", " ", "v", "1", ".", "2">>,
          <<"r", "e", "q", "u", "i", "r", "e", "d", "/", "x", " ", "v", "3">> }
      rustLines ==
        { <<"[", "d", "e", "p", "e", "n", "d", "e", "n", "c", "i", "e", "s", "]">>,
          <<"a", " ", "=", " ", "\"", "1", ".", "2", "\"">>,
          <<"b", " ", "=", " ", "{", " ", "v", "e", "r", "s", "i", "o", "n", " ", "=",
            " ", "\"", "2", "\"", ",", " ", "p", "a", "t", "h", " ", "=", " ", "\"",
            "x", "\"", " ", "}">>,
          <<"[", "f", "e", "a", "t", "u", "r", "e", "s", "]">>,
          <<"c", " ", "=", " ", "\"", "^", "1", "\"">> }
      rustSamples ==
        { SCENARIO_F_CARGO_TOML,
          JoinLines(<< <<"[", "d", "e", "v", "-", "d", "e", "p", "e", "n", "d", "e", "n",
                         "c", "i", "e", "s", "]">>,
                       <<"[", "f", "e", "a", "t", "u", "r", "e", "s", "]">>,
                       <<"a", " ", "=", " ", "\"", "1", ".", "2", "\"">> >>) }
      block(groupId, artifactId, version) ==
        MavenLiterals[1]
          \o MavenLiterals[2] \o groupId \o MavenLiterals[3]
          \o MavenLiterals[4] \o artifactId \o MavenLiterals[5]
          \o (IF version.some
              THEN MavenLiterals[6] \o version.value \o MavenLiterals[7]
              ELSE <<>>)
          \o MavenLiterals[8]
      mavenBlocks ==
        { block(<<"g">>, TEXT_A, Some(TEXT_1_2)),
          block(<<"h">>, TEXT_B, Some(<<"^">>)),
          block(<<"i">>, TEXT_C, Some(<<" ">>)),
          block(<<"j">>, TEXT_D, None) }
      npmEntries ==
        {[name |-> n, value |-> v] :
           n \in {TEXT_A, TEXT_B, TEXT_C},
           v \in {JsonString(TEXT_1_2), JsonString(<<"^">>), JsonNumber}}
      npmMaps ==
        {JsonUndefined}
          \cup {JsonObject(q) :
                  q \in {e \in DistinctSeqsUpTo(npmEntries, MaxEntries) :
                           \A i, j \in DOMAIN e : e[i].name = e[j].name => i = j}}
      npmManifests ==
        {MalformedJson}
          \cup {[type |-> "object", dependencies |-> d, devDependencies |-> dd] :
                  d \in npmMaps, dd \in npmMaps}
      pomPath == <<"s", "r", "c", "/">> \o POM_XML
  IN  {[fn |-> "extractNpmPackages", content |-> c, manifestFile |-> f] :
         c \in npmManifests, f \in {PATH_PACKAGE_JSON, PATH_WEB_PACKAGE_JSON}}
        \cup {[fn |-> "extractPythonPackages", content |-> c,
               manifestFile |-> REQUIREMENTS_TXT] :
                c \in texts(pythonLines) \cup {SCENARIO_A_REQUIREMENTS}}
        \cup {[fn |-> "extractGoPackages", content |-> c, manifestFile |-> GO_MOD] :
                c \in texts(goLines)}
        \cup {[fn |-> "extractRustPackages", content |-> c,
               manifestFile |-> CARGO_TOML] : c \in texts(rustLines) \cup rustSamples}
        \cup {[fn |-> "extractMavenPackages", content |-> c, manifestFile |-> pomPath] :
                c \in texts(mavenBlocks)}
        \cup {[fn |-> "extractPackagesFromManifest", filePath |-> f,
               content |-> [type |-> "text", text |-> c]] :
                f \in {REQUIREMENTS_TXT, GO_MOD, CARGO_TOML, pomPath, PATH_APP_CSPROJ,
                       PATH_README},
                c \in texts(pythonLines) \cup texts(goLines) \cup texts(rustLines)
                        \cup texts(mavenBlocks)}
        \cup {[fn |-> "extractPackagesFromManifest", filePath |-> PATH_WEB_PACKAGE_JSON,
               content |-> c] :
                c \in {m \in npmManifests :
                         m.type = "object" => m.devDependencies = JsonUndefined}}

\* extractNpmPackages(content, manifestFile) returns.
ExtractNpmPackagesReturns ==
  /\ call.fn = "extractNpmPackages"
  /\ returned = <<>>
  /\ returned' = <<extractNpmPackages(call.content, call.manifestFile)>>
  /\ UNCHANGED <<call, scanVars>>

\* extractPythonPackages(content, manifestFile) returns.
ExtractPythonPackagesReturns ==
  /\ call.fn = "extractPythonPackages"
  /\ returned = <<>>
  /\ returned' = <<extractPythonPackages(call.content, call.manifestFile)>>
  /\ UNCHANGED <<call, scanVars>>

\* extractGoPackages(content, manifestFile) returns.
ExtractGoPackagesReturns ==
  /\ call.fn = "extractGoPackages"
  /\ returned = <<>>
  /\ returned' = <<extractGoPackages(call.content, call.manifestFile)>>
  /\ UNCHANGED <<call, scanVars>>

\* extractRustPackages(content, manifestFile) returns.
ExtractRustPackagesReturns ==
  /\ call.fn = "extractRustPackages"
  /\ returned = <<>>
  /\ returned' = <<extractRustPackages(call.content, call.manifestFile)>>
  /\ UNCHANGED <<call, scanVars>>

\* extractMavenPackages(content, manifestFile) returns.
ExtractMavenPackagesReturns ==
  /\ call.fn = "extractMavenPackages"
  /\ returned = <<>>
  /\ returned' = <<extractMavenPackages(call.content, call.manifestFile)>>
  /\ UNCHANGED <<call, scanVars>>

\* extractPackagesFromManifest(filePath, content) returns; field packages.
ExtractPackagesFromManifestReturns ==
  /\ call.fn = "extractPackagesFromManifest"
  /\ returned = <<>>
  /\ returned' = <<extractPackagesFromManifest(call.filePath, call.content)>>
  /\ UNCHANGED <<call, scanVars>>

\* The calls of detectManifestType: every alternative of every
\* MANIFEST_PATTERNS entry as a file name, in its own case and in upper case,
\* bare and inside a directory, and paths that match no pattern.
DetectCalls ==
  LET upper(s) ==
        [i \in 1..Len(s) |->
           IF \E k \in 1..26 : LowerChars[k] = s[i]
           THEN UpperChars[CHOOSE k \in 1..26 : LowerChars[k] = s[i]]
           ELSE s[i]]
      names    == UNION {MANIFEST_PATTERNS[k] : k \in DOMAIN MANIFEST_PATTERNS}
      prefixes == {<<>>, <<"a", "/">>, <<"a", "p", "p">>}
      others   == {<<>>, PATH_README, PATH_PACKAGE_JSON_BAK,
                   <<"g", "r", "a", "d", "l", "e">>,
                   BUILD_GRADLE \o <<".", "b", "a", "k">>,
                   GEMFILE \o <<".", "l", "o", "c", "k">>}
  IN  { [fn |-> "detectManifestType", filePath |-> p] :
          p \in {prefix \o name : prefix \in prefixes,
                                  name \in names \cup {upper(n) : n \in names}}
                \cup others }

\* detectManifestType(filePath) returns.
DetectManifestTypeReturns ==
  /\ call.fn = "detectManifestType"
  /\ returned = <<>>
  /\ returned' = <<detectManifestType(call.filePath)>>
  /\ UNCHANGED <<call, scanVars>>

\* One library call, drawn from the sets above, and the function returns.
LibraryInit ==
  /\ NoScan
  /\ \/ call \in SeverityCalls
     \/ call \in ConvertCalls
     \/ call \in VersionCalls
     \/ call \in ParserCalls
     \/ call \in DetectCalls
  /\ returned = <<>>

LibraryNext ==
  \/ MapOsvSeverityReturns
  \/ ConvertOsvVulnerabilityReturns
  \/ CleanVersionReturns
  \/ CleanVersionAgainReturns
  \/ ExtractNpmPackagesReturns
  \/ ExtractPythonPackagesReturns
  \/ ExtractGoPackagesReturns
  \/ ExtractRustPackagesReturns
  \/ ExtractMavenPackagesReturns
  \/ ExtractPackagesFromManifestReturns
  \/ DetectManifestTypeReturns

LibrarySpec == LibraryInit /\ [][LibraryNext]_vars

\* The functions that return a list of PackageInfo.
ParserFns ==
  {"extractNpmPackages", "extractPythonPackages", "extractGoPackages",
   "extractRustPackages", "extractMavenPackages", "extractPackagesFromManifest"}

\* The string-valued entries of a dependency map whose cleaned version is
\* not empty.
UsableEntries(map) ==
  LET usable(e) == e.value.type = "string" /\ cleanVersion(e.value.value) # <<>>
  IN  IF map.type = "object" THEN SelectSeq(map.entries, usable) ELSE <<>>

\* An entry of the map is a string that cleans to the empty version.
HasUnusableString(map) ==
  /\ map.type = "object"
  /\ \E i \in DOMAIN map.entries :
       /\ map.entries[i].value.type = "string"
       /\ cleanVersion(map.entries[i].value.value) = <<>>

(***************************************************************************)
(* C19: every PackageInfo a manifest parser (npm, PyPI, Go, crates.io,     *)
(* Maven) returns has a non-empty version: cleanVersion returns the empty  *)
(* text for empty or undefined input, and an entry whose cleaned version   *)
(* is empty is skipped, not emitted.                                       *)
(***************************************************************************)
C19_NonEmptyVersions ==
  /\ (call.fn \in ParserFns /\ returned # <<>>)
       => \A i \in DOMAIN returned[1] :
            returned[1][i].version # <<>> /\ returned[1][i].version # Undefined
  /\ (call.fn = "cleanVersion" /\ returned # <<>> /\ call.version \in {Undefined, <<>>})
       => returned[1] = <<>>

\* A package.json with a string entry that cleans to the empty version and
\* an entry that does not: the parser returned the second alone.
C19_Witness ==
  /\ call.fn = "extractNpmPackages"
  /\ returned # <<>>
  /\ call.content.type = "object"
  /\ HasUnusableString(call.content.dependencies)
  /\ Len(returned[1]) = 1

(***************************************************************************)
(* C20: for a parseable package.json, extractNpmPackages returns exactly   *)
(* one PackageInfo, of ecosystem npm and the given manifestFile, for every *)
(* string-valued entry of dependencies and then of devDependencies whose   *)
(* cleaned version is not empty, so N such entries give N records, an      *)
(* entry that is no string gives none, and a name in both maps gives two.  *)
(***************************************************************************)
C20_OneRecordPerStringEntry ==
  (call.fn = "extractNpmPackages" /\ returned # <<>> /\ call.content.type = "object")
    => LET expected == UsableEntries(call.content.dependencies)
                         \o UsableEntries(call.content.devDependencies)
       IN  /\ Len(returned[1]) = Len(expected)
           /\ \A i \in DOMAIN expected :
                returned[1][i] = [name         |-> expected[i].name,
                                  version      |-> cleanVersion(expected[i].value.value),
                                  ecosystem    |-> NPM,
                                  manifestFile |-> call.manifestFile]

\* A name in both maps, with a value beside it that is no string: two
\* records of that name were returned.
C20_Witness ==
  /\ call.fn = "extractNpmPackages"
  /\ returned # <<>>
  /\ call.content.type = "object"
  /\ call.content.dependencies.type = "object"
  /\ call.content.devDependencies.type = "object"
  /\ \E i \in DOMAIN call.content.dependencies.entries :
       call.content.dependencies.entries[i].value.type = "number"
  /\ Len(returned[1]) = 2
  /\ returned[1][1].name = returned[1][2].name

\* The positions of the request's files that are recognized as manifests
\* and whose content cannot be parsed.
MalformedManifests ==
  {i \in 1..Len(body.files.value) :
     /\ body.files.value[i].content.type = "malformed"
     /\ detectManifestType(body.files.value[i].path) # Undefined}

\* The packages of the request's recognized files whose content can be
\* parsed, file after file in the order of the request.
PackagesOfParseableFiles ==
  LET files == body.files.value
      RECURSIVE From(_)
      From(i) ==
        IF i > Len(files) THEN <<>>
        ELSE (IF /\ files[i].content.type # "malformed"
                 /\ detectManifestType(files[i].path) # Undefined
              THEN extractPackagesFromManifest(files[i].path, files[i].content)
              ELSE <<>>)
             \o From(i + 1)
  IN  From(1)

(***************************************************************************)
(* C21: a manifest file with malformed content never aborts the scan: the  *)
(* file contributes no package, the packages of the scan are those of the  *)
(* other files in input order, they are still queried, and the scan fails  *)
(* only when a request to the database fails.                              *)
(***************************************************************************)
C21_MalformedManifestSkipped ==
  /\ [][(pc = "start" /\ body.type = "object" /\ body.files.some
            /\ MalformedManifests # {})
          => /\ \A i \in MalformedManifests :
                  extractPackagesFromManifest(body.files.value[i].path,
                                              body.files.value[i].content) = <<>>
             /\ packages' = PackagesOfParseableFiles]_vars
  /\ [][pc # "start" => packages' = packages]_vars
  /\ []((pc = "done" /\ body.type = "object" /\ body.files.some
            /\ MalformedManifests # {})
          => /\ packages # <<>> => QueryRequestsOf(1) # {}
             /\ result.some
             /\ ~result.value.success
                  => \E i \in 1..Len(trace) :
                       /\ trace[i].of.kind = "querybatch"
                       /\ trace[i].event = "threw" \/ AnsweredWithFailure(trace[i]))

\* A scan of a malformed package.json followed by one with packages ended
\* in success, with the vulnerabilities of the second file.
C21_Witness ==
  /\ pc = "done"
  /\ body.type = "object"
  /\ body.files.some
  /\ Len(body.files.value) = 2
  /\ MalformedManifests = {1}
  /\ result.some
  /\ result.value.success
  /\ result.value.scannedPackages = 2
  /\ Len(result.value.vulnerabilities) >= 1

\* The call is a detectManifestType call whose path matches an entry of
\* MANIFEST_PATTERNS.
MatchesSomePattern ==
  /\ call.fn = "detectManifestType"
  /\ \E k \in DOMAIN MANIFEST_PATTERNS : PatternTest(MANIFEST_PATTERNS[k], call.filePath)

(***************************************************************************)
(* C22: manifest detection depends only on the file path, matched without  *)
(* regard to case against the manifest patterns: every path that matches   *)
(* an entry of MANIFEST_PATTERNS is recognized (detectManifestType returns *)
(* an ecosystem), and a path matching no entry is not.                     *)
(***************************************************************************)
C22_EveryPatternRecognized ==
  (call.fn = "detectManifestType" /\ returned # <<>>)
    => (returned[1] # Undefined <=> MatchesSomePattern)

\* The positions of the trace where a batched query is issued.
QueryRequests == UNION {QueryRequestsOf(b) : b \in 1..Len(batches)}

\* The scan stopped at batch b: its last batched query rejected or was
\* answered without success, a 429 only as the answer to the retry, and no
\* request for a later batch was issued.
StoppedAtBatch(b) ==
  /\ NoRequestAfterBatch(b)
  /\ \E r \in QueryAnswersOf(b) :
       /\ \A r2 \in QueryAnswersOf(b) : r2 <= r
       /\ \/ trace[r].event = "threw"
          \/ /\ AnsweredWithFailure(trace[r])
             /\ trace[r].status # 429 \/ trace[r].of.attempt = 2

\* Every batch was answered with success, at the first request or at the
\* retry.
RanToCompletion ==
  \A b \in 1..Len(batches) :
    \E r \in QueryAnswersOf(b) :
      trace[r].event = "response" /\ ~AnsweredWithFailure(trace[r])

(***************************************************************************)
(* C23: a started scan always ends by returning a ScanResult, provided     *)
(* every issued request settles; it ends either having run to completion   *)
(* or at the first hard failure that is not retried (an HTTP error other   *)
(* than 429, or a failure of the retry after a 429), and it never issues   *)
(* more batched queries than twice the number of batches.                  *)
(***************************************************************************)
C23_EndsWithBoundedQueries ==
  /\ <>(pc = "done" /\ result.some)
  /\ [](Cardinality(QueryRequests) <= 2 * Len(batches))
  /\ []((pc = "done" /\ batches # <<>>)
          => \/ result.value.success /\ RanToCompletion
             \/ /\ ~result.value.success
                /\ \E b \in 1..Len(batches) : StoppedAtBatch(b))

\* A scan of two batches ended in success after each batch was queried
\* twice: four batched queries, the most the bound allows.
C23_Witness ==
  /\ pc = "done"
  /\ result.some
  /\ result.value.success
  /\ Len(batches) = 2
  /\ Cardinality(QueryRequests) = 4

\* What a requirements line is read as: the packages (none or one) of a
\* line that, trimmed, is an identifier (letters, digits, '_', '-'), white
\* space or none, a run of '=', '>', '<', white space or none, and a
\* numeric version (the longest run of digits and dots), followed by
\* anything.
RequirementOf(line, manifestFile) ==
  LET t == Trim(line)
      n == Len(t)
      all(from, to, chars) == \A i \in from..to : t[i] \in chars
      reads ==
        {r \in [nameEnd : 1..n, opStart : 1..n, opEnd : 1..n, verStart : 1..n, verEnd : 1..n] :
           /\ r.nameEnd < r.opStart /\ r.opStart <= r.opEnd
           /\ r.opEnd < r.verStart /\ r.verStart <= r.verEnd
           /\ all(1, r.nameEnd, CharClasses.name)
           /\ all(r.nameEnd + 1, r.opStart - 1, CharClasses.space)
           /\ all(r.opStart, r.opEnd, {"=", ">", "<"})
           /\ all(r.opEnd + 1, r.verStart - 1, CharClasses.space)
           /\ all(r.verStart, r.verEnd, CharClasses.version)
           /\ r.verEnd < n => t[r.verEnd + 1] \notin CharClasses.version}
  IN  IF n = 0 \/ t[1] = "#" \/ reads = {}
      THEN <<>>
      ELSE LET r == CHOOSE r \in reads : TRUE
           IN  <<PackageInfo(SubSeq(t, 1, r.nameEnd), SubSeq(t, r.verStart, r.verEnd),
                             PYPI, manifestFile)>>

\* The requirements of the lines of a text, in line order.
RECURSIVE RequirementsOf(_, _)
RequirementsOf(lines, manifestFile) ==
  IF lines = <<>> THEN <<>>
  ELSE RequirementOf(Head(lines), manifestFile)
         \o RequirementsOf(Tail(lines), manifestFile)

(***************************************************************************)
(* C24: extractPythonPackages emits, in line order, exactly one PyPI       *)
(* package for each line that, trimmed, is not blank, does not start with  *)
(* '#' and starts with an identifier, a run of '=', '>' or '<' and a       *)
(* numeric version; every other line yields nothing.  The documented       *)
(* example yields flask 2.0.1 followed by django 3.2.                      *)
(***************************************************************************)
C24_OnePackagePerRequirementLine ==
  (call.fn = "extractPythonPackages" /\ returned # <<>>)
    => /\ returned[1] = RequirementsOf(SplitLines(call.content), call.manifestFile)
       /\ call.content = SCENARIO_A_REQUIREMENTS
            => returned[1] =
                 << PackageInfo(<<"f", "l", "a", "s", "k">>, <<"2", ".", "0", ".", "1">>,
                                PYPI, call.manifestFile),
                    PackageInfo(<<"d", "j", "a", "n", "g", "o">>, <<"3", ".", "2">>,
                                PYPI, call.manifestFile) >>

\* The parser returned two packages for the documented example.
C24_Witness ==
  /\ call.fn = "extractPythonPackages"
  /\ call.content = SCENARIO_A_REQUIREMENTS
  /\ Len(returned) = 1
  /\ Len(returned[1]) = 2

\* The module and version a go.mod line names when its text from position
\* `from` on is a module path, white space, 'v' and a run of digits and
\* dots; the empty set when it is not of that form.
ModuleVersionAt(t, from) ==
  LET n == Len(t)
      all(a, b, chars) == \A i \in a..b : t[i] \in chars
  IN  {[name |-> SubSeq(t, from, r.nameEnd), version |-> SubSeq(t, r.vAt + 1, r.verEnd)] :
         r \in {r \in [nameEnd : from..n, vAt : from..n, verEnd : from..n] :
                  /\ r.nameEnd + 1 < r.vAt /\ r.vAt < r.verEnd
                  /\ all(from, r.nameEnd, CharClasses.path)
                  /\ all(r.nameEnd + 1, r.vAt - 1, CharClasses.space)
                  /\ t[r.vAt] = "v"
                  /\ all(r.vAt + 1, r.verEnd, CharClasses.version)
                  /\ r.verEnd < n => t[r.verEnd + 1] \notin CharClasses.version}}

\* The module and version of a single-line statement 'require module vX.Y.Z'.
RequireStatement(t) ==
  UNION {ModuleVersionAt(t, from) :
           from \in {k \in 9..Len(t) :
                       /\ SubSeq(t, 1, 7) = <<"r", "e", "q", "u", "i", "r", "e">>
                       /\ \A i \in 8..(k - 1) : t[i] \in CharClasses.space}}

\* The packages of a go.mod as the documentation describes them: the state
\* is set by a 'require (' line and reset by a ')' line; a comment yields
\* nothing; a require statement yields its module; a 'module vX.Y.Z' line
\* yields its module when the state is set; any other line yields nothing.
RECURSIVE RequiredModules(_, _, _)
RequiredModules(lines, inRequireBlock, manifestFile) ==
  IF lines = <<>> THEN <<>>
  ELSE LET t    == Trim(Head(lines))
           rest == Tail(lines)
           one(reads) ==
             LET r == CHOOSE r \in reads : TRUE
             IN  <<PackageInfo(r.name, r.version, GO, manifestFile)>>
       IN  IF t = <<"r", "e", "q", "u", "i", "r", "e", " ", "(">>
           THEN RequiredModules(rest, TRUE, manifestFile)
           ELSE IF t = <<")">>
           THEN RequiredModules(rest, FALSE, manifestFile)
           ELSE (IF t = <<>> \/ SubSeq(t, 1, 2) = <<"/", "/">> THEN <<>>
                 ELSE IF RequireStatement(t) # {} THEN one(RequireStatement(t))
                 ELSE IF inRequireBlock /\ ModuleVersionAt(t, 1) # {}
                 THEN one(ModuleVersionAt(t, 1))
                 ELSE <<>>)
                \o RequiredModules(rest, inRequireBlock, manifestFile)

(***************************************************************************)
(* C25: extractGoPackages keeps one boolean state, set at a 'require ('    *)
(* line and reset at a ')' line; a line yields a package only if it is a   *)
(* 'module vX.Y.Z' line read while the state is set or a single-line       *)
(* 'require module vX.Y.Z' statement; every other line yields no package,  *)
(* for every sequence of lines.                                            *)
(***************************************************************************)
C25_OnlyRequiredModules ==
  (call.fn = "extractGoPackages" /\ returned # <<>>)
    => returned[1] = RequiredModules(SplitLines(call.content), FALSE, call.manifestFile)

\* Line i of a Cargo.toml lies inside a dependencies table: the most recent
\* '[...]' header line before it is exactly [dependencies] or
\* [dev-dependencies].
InsideDependenciesTable(lines, i) ==
  LET header(j) == Trim(lines[j]) # <<>> /\ Trim(lines[j])[1] = "["
      table(j)  ==
        Trim(lines[j]) \in
          { <<"[", "d", "e", "p", "e", "n", "d", "e", "n", "c", "i", "e", "s", "]">>,
            <<"[", "d", "e", "v", "-", "d", "e", "p", "e", "n", "d", "e", "n", "c", "i",
              "e", "s", "]">> }
  IN  \E j \in 1..(i - 1) :
        /\ table(j)
        /\ \A k \in (j + 1)..(i - 1) : ~header(k)

\* The packages of the lines i.. of a Cargo.toml: what a line inside a
\* dependencies table is matched as, nothing for the other lines.
RECURSIVE DependenciesFrom(_, _, _)
DependenciesFrom(lines, i, manifestFile) ==
  IF i > Len(lines) THEN <<>>
  ELSE (IF InsideDependenciesTable(lines, i) /\ RustMatch(Trim(lines[i])).some
        THEN <<PackageInfo(RustMatch(Trim(lines[i])).value.name,
                           RustMatch(Trim(lines[i])).value.version,
                           CRATES_IO, manifestFile)>>
        ELSE <<>>)
       \o DependenciesFrom(lines, i + 1, manifestFile)

(***************************************************************************)
(* C26: extractRustPackages keeps one boolean state: a line yields a       *)
(* package only if the most recent '[...]' header line before it is        *)
(* exactly [dependencies] or [dev-dependencies]; any other header resets   *)
(* the state, so lines under other tables never yield packages.  Inside    *)
(* the table the plain form is tried before the inline-table form, and the *)
(* documented serde line under [dependencies] yields exactly serde 1.0.100 *)
(* in ecosystem crates.io.                                                 *)
(***************************************************************************)
C26_OnlyInsideDependenciesTable ==
  (call.fn = "extractRustPackages" /\ returned # <<>>)
    => /\ returned[1] = DependenciesFrom(SplitLines(call.content), 1, call.manifestFile)
       /\ call.content = SCENARIO_F_CARGO_TOML
            => returned[1] =
                 <<PackageInfo(<<"s", "e", "r", "d", "e">>,
                               <<"1", ".", "0", ".", "1", "0", "0">>,
                               CRATES_IO, call.manifestFile)>>

\* The parser returned nothing for a dependency line that follows the
\* header of another table, itself after [dev-dependencies].
C26_Witness ==
  /\ call.fn = "extractRustPackages"
  /\ Len(returned) = 1
  /\ returned[1] = <<>>
  /\ LET lines == SplitLines(call.content)
     IN  /\ Len(lines) = 3
         /\ InsideDependenciesTable(lines, 2)
         /\ ~InsideDependenciesTable(lines, 3)
         /\ RustMatch(Trim(lines[3])).some

\* The packages of a pom.xml whose lines each hold one <dependency> block,
\* every block read on its own, in order.
RECURSIVE PackagesOfBlocks(_, _)
PackagesOfBlocks(blocks, manifestFile) ==
  IF blocks = <<>> THEN <<>>
  ELSE extractMavenPackages(Head(blocks), manifestFile)
         \o PackagesOfBlocks(Tail(blocks), manifestFile)

(***************************************************************************)
(* C27: every package extractMavenPackages emits is named                  *)
(* 'groupId:artifactId' with the groupId, the artifactId and the version   *)
(* taken from one and the same <dependency> block; a block that has no     *)
(* <version> element yields no package and never borrows the version of a *)
(* later block.                                                            *)
(***************************************************************************)
C27_VersionOfTheSameBlock ==
  (call.fn = "extractMavenPackages" /\ returned # <<>>)
    => returned[1] = PackagesOfBlocks(SplitLines(call.content), call.manifestFile)

\* The map entry of package i of batch b as a function of the response body
\* and of how the detail fetches settled, whichever request was answered:
\* for every vulnerability of the body, in order, the record its detail
\* fetch returned, or the minimal record of the body when that fetch failed.
EntryOfResponseBody(b, i) ==
  LET vulns == OsvBatchResponse(BatchRequest(batches[b])).results[i].vulns.value
  IN  [k \in 1..Len(vulns) |->
         IF DetailOutcomeOf(b, i, k) = "ok" THEN OsvDetails(vulns[k].id) ELSE vulns[k]]

\* Batch b was answered on the retry after a 429.
AnsweredOnRetry(b) ==
  \E r \in QueryAnswersOf(b) :
    /\ trace[r].event = "response"
    /\ trace[r].of.attempt = 2
    /\ ~AnsweredWithFailure(trace[r])

(***************************************************************************)
(* C28: the map entries written for a batch answered on the retry after a  *)
(* 429 are those the first request would have written for the same         *)
(* response body: an entry exactly for each package whose result has       *)
(* vulnerabilities, under the package's key, holding per vulnerability the *)
(* fetched details or the minimal record when the detail fetch failed.     *)
(***************************************************************************)
C28_RetryWritesSameEntries ==
  [][(pc \in {"process", "awaitDetails", "retryProcess", "retryAwaitDetails"})
       => /\ AnsweredOnRetry(batchIndex) <=> pc \in {"retryProcess", "retryAwaitDetails"}
          /\ data = OsvBatchResponse(BatchRequest(batches[batchIndex]))
          /\ IF index' = index + 1 /\ HasVulns(data.results, index)
             THEN vulnerabilityMap' =
                    MapSet(vulnerabilityMap, PackageKey(batches[batchIndex][index]),
                           EntryOfResponseBody(batchIndex, index))
             ELSE vulnerabilityMap' = vulnerabilityMap]_vars

\* A batch answered on the retry has an entry for which one detail fetch
\* failed and another succeeded.
C28_Witness ==
  /\ pc = "retryProcess"
  /\ index > 1
  /\ AnsweredOnRetry(batchIndex)
  /\ HasVulns(data.results, index - 1)
  /\ \E k1, k2 \in 1..Len(data.results[index - 1].vulns.value) :
       /\ DetailOutcomeOf(batchIndex, index - 1, k1) = "ok"
       /\ DetailOutcomeOf(batchIndex, index - 1, k2) # "ok"
  /\ PackageKey(batches[batchIndex][index - 1]) \in DOMAIN vulnerabilityMap

(***************************************************************************)
(* C29: in every ScanResult stats.total is the sum of stats.critical,      *)
(* stats.high, stats.medium and stats.low: no vulnerability of the result  *)
(* carries a severity, such as UNKNOWN, that is counted in the total and   *)
(* in none of the four buckets.                                            *)
(***************************************************************************)
C29_TotalIsSumOfBuckets ==
  result.some
    => LET stats == result.value.stats
           vs    == result.value.vulnerabilities
       IN  /\ stats.total = stats.critical + stats.high + stats.medium + stats.low
           /\ \A i \in 1..Len(vs) : vs[i].severity \in {"CRITICAL", "HIGH", "MEDIUM", "LOW"}

\* A scan returned a vulnerability whose record is the minimal one of the
\* batch response, which carries no severity data, among others.
C29_Witness ==
  /\ pc = "done"
  /\ result.some
  /\ result.value.stats.total >= 2
  /\ result.value.stats.total > result.value.stats.critical + result.value.stats.high
  /\ \E b \in 1..Len(batches), i \in 1..MAX_BATCH_SIZE, j \in 1..Len(trace) :
       /\ trace[j].event = "response"
       /\ trace[j].of.kind = "vulns"
       /\ trace[j].of.batch = b /\ trace[j].of.index = i
       /\ trace[j].outcome # "ok"

\* The positions of the request's files whose path matches the pattern of
\* one of the given entries of MANIFEST_PATTERNS.
FilesMatching(entries) ==
  {i \in 1..Len(body.files.value) :
     \E k \in entries : PatternTest(MANIFEST_PATTERNS[k], body.files.value[i].path)}

====
